---- MODULE Spec2Model ----
(***************************************************************************)
(* Verification model of the reverse-engineering core of the asset-factory *)
(* pipelines: section extraction (capture.py), semantic classification     *)
(* (classifier.py), design-token extraction (theme.py), atoms DSL          *)
(* (atoms_dsl.py) and the section composer (map.py, map_sections).         *)
(*                                                                         *)
(* Each component has its own specification (SpecExtract, SpecClassify,    *)
(* ...) over the shared variable tuple; a component's specification leaves *)
(* the other components' variables at their initial values.                *)
(***************************************************************************)
EXTENDS Integers, Sequences, FiniteSets, TLC

VARIABLES
    exDom,        \* extraction: elements matched by the selectors, in match order
    exCandidates, \* extraction: candidates after pushEl and the sort
    exFiltered,   \* extraction: accepted candidates so far (in acceptance order)
    exDropped,    \* extraction: candidates dropped so far
    exPos,        \* extraction: next position of the forEach over exCandidates
    exAtoms,      \* extraction: the atoms list of each payload, in payload order
    exStage,      \* extraction: "idle" | "dom" | "suppress" | "done"
    clsIn,        \* classifier: the (section, context) argument of classify_section
    clsOut,       \* classifier: the value classify_section returned
    clsStage,     \* classifier: "idle" | "called" | "returned"
    thSamples,    \* theme: the samples argument of build_theme_tokens
    thOut,        \* theme: what build_theme_tokens returned, or that it raised
    thStage,      \* theme: "idle" | "called" | "returned" | "raised"
    mapCfg,       \* composer: the page configuration map_sections runs with
    mapMapped,    \* composer: the mapped list at the start of the loop
    mapIndex,     \* composer: index of the loop over mapped
    mapSection,   \* composer: the section the loop body has just typed
    mapStage,     \* composer: "idle" | "baseline" | "loop" | "section" | "navbar" | "done"
    plPage,       \* pipeline: the captured sections of the page, box and payload
    plExtracted,  \* pipeline: extract_data["sections"]
    plCapture,    \* pipeline: what capture_site computed from the payloads
    plDsl,        \* pipeline: the sections build_atoms_dsl wrote
    plTitles,     \* pipeline: section_titles of map_sections
    plExc,        \* pipeline: the exception that ended the run, or "none"
    plStage,      \* pipeline: "idle" | "start" | "captured" | "dsl_built" | "titled"
                  \*           | "capture_raised" | "dsl_raised" | "titles_raised"
    hsInput,      \* HSL text: the string the round trip starts from
    hsText,       \* HSL text: the string _parse_hsl is applied to
    hsTriple,     \* HSL text: what _parse_hsl returned
    hsOut,        \* HSL text: the triple written back as "H S% L%"
    hsFirst,      \* HSL text: the result of the first round trip
    hsAccepted,   \* HSL text: what _hsl_value returned for hsInput
    hsRound,      \* HSL text: 1 | 2, the round trip under way
    hsStage,      \* HSL text: "idle" | "text" | "parsed" | "unparsed" | "formatted" | "valued"
    pgSamples,    \* pages: the style samples capture_site takes from each page
    pgAnswer,     \* pages: the LLM's answer to each page's theme request
    pgPc,         \* pages: the stage each page's invocation is at
    pgTokens,     \* pages: <site_dir>/theme/tokens.json
    pgFiles,      \* pages: the files under capture/<slug> and pages/<slug>
    pgDesign,     \* pages: what build_design_system derived for each page
    pgTheme,      \* pages: what generate_theme_and_media_plan returned for each page
    pgBuilt,      \* pages: tokens, the local of capture_site, while it is writing
    pgReads,      \* pages: the pages whose writes each page's stages have read
    lyNodes,      \* layout: computed_styles.nodes of the payload given to _infer_layout_type
    lyOut,        \* layout: the layout type returned
    lyStage,      \* layout: "idle" | "called" | "returned"
    grBoxes,      \* grouping: the section boxes, as <<top, height>> in capture order
    grGroups,     \* grouping: groups_payload, the indices of each group
    grStage,      \* grouping: "idle" | "sections" | "grouped"
    smArg,        \* semantic: the --semantic-override argument and the file it names
    smPage,       \* semantic: the captured sections of the page
    smDsl,        \* semantic: the sections of atoms_dsl.json
    smFile,       \* semantic: semantic.json of the page
    smTags,       \* semantic: the tags map_sections loaded
    smStage,      \* semantic: "idle" | "main" | "run_pipeline" | "captured" | "dsl" | "tagged" | "mapped"
    sgAtoms,      \* suggestion: the atoms-DSL section
    sgOut,        \* suggestion: what _suggest_block_from_atoms returned
    sgStage,      \* suggestion: "idle" | "section" | "suggested"
    crCfg,        \* crawl: links_out of every URL, max_pages, max_depth, concurrency
    crQueue,      \* crawl: queue, as <<url, depth>>
    crSeen,       \* crawl: seen
    crPages,      \* crawl: the URLs of pages, in the order they were appended
    crBatch,      \* crawl: batch
    crFetched,    \* crawl: the entries of batch whose process_page has returned
    crPos,        \* crawl: the next result of gather to handle
    crEnqueued,   \* crawl: every URL ever put on queue, in order (a log)
    crStage       \* crawl: "idle" | "loop" | "gather" | "done"

exVars == <<exDom, exCandidates, exFiltered, exDropped, exPos, exAtoms, exStage>>

clsVars == <<clsIn, clsOut, clsStage>>

thVars == <<thSamples, thOut, thStage>>

mapVars == <<mapCfg, mapMapped, mapIndex, mapSection, mapStage>>

plVars == <<plPage, plExtracted, plCapture, plDsl, plTitles, plExc, plStage>>

hsVars == <<hsInput, hsText, hsTriple, hsOut, hsFirst, hsAccepted, hsRound, hsStage>>

pgVars == <<pgSamples, pgAnswer, pgPc, pgTokens, pgFiles, pgDesign, pgTheme, pgBuilt, pgReads>>

lyVars == <<lyNodes, lyOut, lyStage>>

grVars == <<grBoxes, grGroups, grStage>>

smVars == <<smArg, smPage, smDsl, smFile, smTags, smStage>>

sgVars == <<sgAtoms, sgOut, sgStage>>

crVars == <<crCfg, crQueue, crSeen, crPages, crBatch, crFetched, crPos, crEnqueued, crStage>>

vars == <<exVars, clsVars, thVars, mapVars, plVars, hsVars, pgVars, lyVars, grVars, smVars, sgVars, crVars>>

\* the variables of the other components
exOthers == <<clsVars, thVars, mapVars, plVars, hsVars, pgVars, lyVars, grVars, smVars, sgVars, crVars>>

clsOthers == <<exVars, thVars, mapVars, plVars, hsVars, pgVars, lyVars, grVars, smVars, sgVars, crVars>>

thOthers == <<exVars, clsVars, mapVars, plVars, hsVars, pgVars, lyVars, grVars, smVars, sgVars, crVars>>

mapOthers == <<exVars, clsVars, thVars, plVars, hsVars, pgVars, lyVars, grVars, smVars, sgVars, crVars>>

plOthers == <<exVars, clsVars, thVars, mapVars, hsVars, pgVars, lyVars, grVars, smVars, sgVars, crVars>>

hsOthers == <<exVars, clsVars, thVars, mapVars, plVars, pgVars, lyVars, grVars, smVars, sgVars, crVars>>

pgOthers == <<exVars, clsVars, thVars, mapVars, plVars, hsVars, lyVars, grVars, smVars, sgVars, crVars>>

lyOthers == <<exVars, clsVars, thVars, mapVars, plVars, hsVars, pgVars, grVars, smVars, sgVars, crVars>>

grOthers == <<exVars, clsVars, thVars, mapVars, plVars, hsVars, pgVars, lyVars, smVars, sgVars, crVars>>

smOthers == <<exVars, clsVars, thVars, mapVars, plVars, hsVars, pgVars, lyVars, grVars, sgVars, crVars>>

sgOthers == <<exVars, clsVars, thVars, mapVars, plVars, hsVars, pgVars, lyVars, grVars, smVars, crVars>>

crOthers == <<exVars, clsVars, thVars, mapVars, plVars, hsVars, pgVars, lyVars, grVars, smVars, sgVars>>

(***************************************************************************)
(* The state of a component that is not running                            *)
(***************************************************************************)
ExtractIdle ==
    /\ exDom = <<>>
    /\ exCandidates = <<>>
    /\ exFiltered = <<>>
    /\ exDropped = {}
    /\ exPos = 0
    /\ exAtoms = <<>>
    /\ exStage = "idle"

NoResult == [candidates |-> <<>>, family |-> "", signals |-> <<>>]

ClassifyIdle ==
    /\ clsIn = <<>>
    /\ clsOut = NoResult
    /\ clsStage = "idle"

NoTokens == [raised |-> FALSE, exc |-> "none", tokens |-> <<>>]

ThemeIdle ==
    /\ thSamples = <<>>
    /\ thOut = NoTokens
    /\ thStage = "idle"

NoSection == [index |-> -1]

MapIdle ==
    /\ mapCfg = <<>>
    /\ mapMapped = <<>>
    /\ mapIndex = 0
    /\ mapSection = NoSection
    /\ mapStage = "idle"

PipelineIdle ==
    /\ plPage = <<>>
    /\ plExtracted = <<>>
    /\ plCapture = <<>>
    /\ plDsl = <<>>
    /\ plTitles = <<>>
    /\ plExc = "none"
    /\ plStage = "idle"

HslIdle ==
    /\ hsInput = <<>>
    /\ hsText = <<>>
    /\ hsTriple = [k |-> "none"]
    /\ hsOut = <<>>
    /\ hsFirst = <<>>
    /\ hsAccepted = [k |-> "none"]
    /\ hsRound = 0
    /\ hsStage = "idle"

PagesIdle ==
    /\ pgSamples = <<>>
    /\ pgAnswer = <<>>
    /\ pgPc = <<>>
    /\ pgTokens = <<>>
    /\ pgFiles = <<>>
    /\ pgDesign = <<>>
    /\ pgTheme = <<>>
    /\ pgBuilt = <<>>
    /\ pgReads = <<>>

LayoutIdle ==
    /\ lyNodes = <<>>
    /\ lyOut = ""
    /\ lyStage = "idle"

GroupsIdle ==
    /\ grBoxes = <<>>
    /\ grGroups = <<>>
    /\ grStage = "idle"

SemanticIdle ==
    /\ smArg = <<>>
    /\ smPage = <<>>
    /\ smDsl = <<>>
    /\ smFile = <<>>
    /\ smTags = <<>>
    /\ smStage = "idle"

SuggestIdle ==
    /\ sgAtoms = <<>>
    /\ sgOut = <<>>
    /\ sgStage = "idle"

CrawlIdle ==
    /\ crCfg = <<>>
    /\ crQueue = <<>>
    /\ crSeen = {}
    /\ crPages = <<>>
    /\ crBatch = <<>>
    /\ crFetched = {}
    /\ crPos = 1
    /\ crEnqueued = <<>>
    /\ crStage = "idle"

\* every component but the named one is idle
ExtractAlone == ClassifyIdle /\ ThemeIdle /\ MapIdle /\ PipelineIdle /\ HslIdle /\ PagesIdle /\ LayoutIdle /\ GroupsIdle /\ SemanticIdle /\ SuggestIdle /\ CrawlIdle

ClassifyAlone == ExtractIdle /\ ThemeIdle /\ MapIdle /\ PipelineIdle /\ HslIdle /\ PagesIdle /\ LayoutIdle /\ GroupsIdle /\ SemanticIdle /\ SuggestIdle /\ CrawlIdle

ThemeAlone == ExtractIdle /\ ClassifyIdle /\ MapIdle /\ PipelineIdle /\ HslIdle /\ PagesIdle /\ LayoutIdle /\ GroupsIdle /\ SemanticIdle /\ SuggestIdle /\ CrawlIdle

MapAlone == ExtractIdle /\ ClassifyIdle /\ ThemeIdle /\ PipelineIdle /\ HslIdle /\ PagesIdle /\ LayoutIdle /\ GroupsIdle /\ SemanticIdle /\ SuggestIdle /\ CrawlIdle

PipelineAlone == ExtractIdle /\ ClassifyIdle /\ ThemeIdle /\ MapIdle /\ HslIdle /\ PagesIdle /\ LayoutIdle /\ GroupsIdle /\ SemanticIdle /\ SuggestIdle /\ CrawlIdle

HslAlone == ExtractIdle /\ ClassifyIdle /\ ThemeIdle /\ MapIdle /\ PipelineIdle /\ PagesIdle /\ LayoutIdle /\ GroupsIdle /\ SemanticIdle /\ SuggestIdle /\ CrawlIdle

PagesAlone == ExtractIdle /\ ClassifyIdle /\ ThemeIdle /\ MapIdle /\ PipelineIdle /\ HslIdle /\ LayoutIdle /\ GroupsIdle /\ SemanticIdle /\ SuggestIdle /\ CrawlIdle

LayoutAlone == ExtractIdle /\ ClassifyIdle /\ ThemeIdle /\ MapIdle /\ PipelineIdle /\ HslIdle /\ PagesIdle /\ GroupsIdle /\ SemanticIdle /\ SuggestIdle /\ CrawlIdle

GroupsAlone == ExtractIdle /\ ClassifyIdle /\ ThemeIdle /\ MapIdle /\ PipelineIdle /\ HslIdle /\ PagesIdle /\ LayoutIdle /\ SemanticIdle /\ SuggestIdle /\ CrawlIdle

SemanticAlone == ExtractIdle /\ ClassifyIdle /\ ThemeIdle /\ MapIdle /\ PipelineIdle /\ HslIdle /\ PagesIdle /\ LayoutIdle /\ GroupsIdle /\ SuggestIdle /\ CrawlIdle

SuggestAlone == ExtractIdle /\ ClassifyIdle /\ ThemeIdle /\ MapIdle /\ PipelineIdle /\ HslIdle /\ PagesIdle /\ LayoutIdle /\ GroupsIdle /\ SemanticIdle /\ CrawlIdle

CrawlAlone == ExtractIdle /\ ClassifyIdle /\ ThemeIdle /\ MapIdle /\ PipelineIdle /\ HslIdle /\ PagesIdle /\ LayoutIdle /\ GroupsIdle /\ SemanticIdle /\ SuggestIdle

(***************************************************************************)
(* Generic helpers                                                         *)
(***************************************************************************)
Max2(a, b) == IF a >= b THEN a ELSE b

Min2(a, b) == IF a <= b THEN a ELSE b

Range(s) == {s[i] : i \in 1..Len(s)}

SeqsUpTo(S, n) == UNION {[1..k -> S] : k \in 0..n}

\* the subsets of S with at most k elements
RECURSIVE SubsetsUpTo(_, _)
SubsetsUpTo(S, k) ==
    IF k = 0 THEN {{}}
    ELSE LET smaller == SubsetsUpTo(S, k - 1)
         IN  smaller \cup {T \cup {x} : T \in smaller, x \in S}

(***************************************************************************)
(* Semantic Classifier: classifier.py                                      *)
(***************************************************************************)
MaxDeviations == 2

DefaultViewportHeight == 900

\* Phrases that occur in the modelled section texts.
Vocabulary ==
    {"get started", "contact us", "faq", "testimonial", "reviews",
     "case study", "integration", "compare", "use case", "step", "docs",
     "privacy", "platform", "email", "accordion", "table", "monthly",
     "yearly", "$99/mo", "50%", "pricing", "footer", "nav", "hero",
     "feature"}

\* The search strings of the classifier that a phrase contains as substrings
\* ("platform" contains "form", "$99/mo" matches [$]\d+ and /mo, ...).
Needles(tok) ==
    CASE tok = "get started" -> {"get started"}
      [] tok = "contact us"  -> {"contact", "contact us"}
      [] tok = "faq"         -> {"faq"}
      [] tok = "testimonial" -> {"testimonial"}
      [] tok = "reviews"     -> {"reviews"}
      [] tok = "case study"  -> {"case study"}
      [] tok = "integration" -> {"integration"}
      [] tok = "compare"     -> {"compare"}
      [] tok = "use case"    -> {"use case"}
      [] tok = "step"        -> {"step"}
      [] tok = "docs"        -> {"docs"}
      [] tok = "privacy"     -> {"privacy"}
      [] tok = "platform"    -> {"form"}
      [] tok = "email"       -> {"email"}
      [] tok = "accordion"   -> {"accordion"}
      [] tok = "table"       -> {"table"}
      [] tok = "monthly"     -> {"monthly"}
      [] tok = "yearly"      -> {"yearly"}
      [] tok = "$99/mo"      -> {"[$]\\d+", "/mo"}
      [] tok = "50%"         -> {"\\d+%"}
      [] OTHER               -> {}

\* needle in text
InText(text, needle) == \E tok \in text : needle \in Needles(tok)

\* any(phrase in text for phrase in CTA_PHRASES)
CTA_PHRASES ==
    {"get started", "book a demo", "request demo", "contact", "contact us",
     "buy now", "start free", "free trial", "zh:liji", "zh:zixun", "zh:yuyue"}

\* re.search(r"[$..]\s?\d+|/mo|/yr|per month|monthly|..", text)
_has_price_pattern(text) ==
    \E n \in {"[$]\\d+", "/mo", "/yr", "per month", "monthly", "zh:nianfu", "zh:yuefu"} :
        InText(text, n)

\* re.search(r"\d+%|\d+x|\d+k|\d+,\d+", text)
_has_stats_pattern(text) ==
    \E n \in {"\\d+%", "\\d+x", "\\d+k", "\\d+,\\d+"} : InText(text, n)

\* _build_signals(section, context)
_build_signals(in) ==
    LET text == in.text
        text_len == in.textLen
        links == in.links
        den == Max2(text_len, 1)
    IN
    [text_len |-> text_len,
     \* link_density = links / max(text_len, 1), kept as the pair it is
     \* compared through: link_density > t/100 iff 100 * links > t * den
     links |-> links,
     den |-> den,
     above_the_fold |-> 10 * in.layoutTop < 9 * in.viewportHeight,
     near_bottom |-> in.index >= Max2(in.total - 2, 0),
     near_top |-> in.index = 0,
     section_height |-> in.layoutHeight,
     has_h1 |-> "has_h1" \in in.flags,
     has_cta_phrase |-> \E phrase \in CTA_PHRASES : InText(text, phrase),
     has_price_pattern |-> _has_price_pattern(text),
     has_faq_pattern |-> InText(text, "faq") \/ InText(text, "zh:changjianwenti")
                            \/ InText(text, "question"),
     has_quote_pattern |-> InText(text, "\"") \/ InText(text, "zh:quote")
                              \/ InText(text, "testimonial"),
     has_rating_pattern |-> InText(text, "*****") \/ InText(text, "trustpilot")
                               \/ InText(text, "reviews"),
     has_case_pattern |-> InText(text, "case study") \/ InText(text, "zh:anli"),
     has_integrations_pattern |-> InText(text, "integration") \/ InText(text, "zh:jicheng"),
     has_compare_pattern |-> InText(text, "comparison") \/ InText(text, "compare"),
     has_use_cases_pattern |-> InText(text, "use case") \/ InText(text, "zh:changjing"),
     has_step_pattern |-> InText(text, "step") \/ InText(text, "zh:buzhou")
                             \/ InText(text, "zh:liucheng"),
     has_support_pattern |-> InText(text, "docs") \/ InText(text, "documentation")
                                \/ InText(text, "zh:zhichi"),
     has_contact_pattern |-> InText(text, "contact") \/ InText(text, "zh:lianxiwomen"),
     has_footer_pattern |-> InText(text, "privacy") \/ InText(text, "terms")
                               \/ InText(text, "(c)"),
     has_footer_tag |-> "has_footer_tag" \in in.flags,
     has_form |-> InText(text, "form") \/ InText(text, "email") \/ InText(text, "phone"),
     has_accordion_pattern |-> InText(text, "accordion"),
     has_stats_pattern |-> _has_stats_pattern(text),
     has_table |-> InText(text, "table"),
     has_toggle_pattern |-> InText(text, "monthly") \/ InText(text, "yearly"),
     grid_like |-> "grid_like" \in in.flags,
     repeat_items |-> "repeat_items" \in in.flags,
     has_media |-> "has_media" \in in.flags,
     has_points |-> "has_points" \in in.flags,
     two_column_like |-> "two_column_like" \in in.flags,
     img_count |-> in.imgCount,
     card_count |-> in.cardCount,
     near_hero |-> "near_hero" \in in.flags]

\* signals["link_density"] > t / 100
LinkDensityAbove(signals, t) == 100 * signals.links > t * signals.den

\* A scorer is a list of rules <<condition, reason, points, delta>>: when the
\* condition holds, _score appends "reason:points" to reasons and the score
\* changes by delta (delta = points for "score += _score(..)", delta = -points
\* for "score -= _score(..)").
RECURSIVE RunRules(_)
RunRules(rules) ==
    IF rules = <<>> THEN [score |-> 0, reasons |-> <<>>]
    ELSE LET rest == RunRules(SubSeq(rules, 1, Len(rules) - 1))
             r == rules[Len(rules)]
         IN  IF r[1]
             THEN [score |-> rest.score + r[4],
                   reasons |-> Append(rest.reasons, <<r[2], r[3]>>)]
             ELSE rest

\* variant of the Hero scorer in which the penalties are subtracted
_score_hero_penalising(signals) ==
    RunRules(<<
        <<signals.above_the_fold, "above_the_fold", 20, 20>>,
        <<signals.has_h1, "has_h1", 25, 25>>,
        <<signals.has_cta_phrase, "cta_phrase", 15, 15>>,
        <<LinkDensityAbove(signals, 8), "high_link_density", -25, -25>>,
        <<signals.has_price_pattern, "price_pattern", -15, -15>> >>)

_score_hero(signals) ==
    RunRules(<<
        <<signals.above_the_fold, "above_the_fold", 20, 20>>,
        <<signals.has_h1, "has_h1", 25, 25>>,
        <<signals.has_cta_phrase, "cta_phrase", 15, 15>>,
        \* score -= _score("high_link_density", -25, reasons)
        <<LinkDensityAbove(signals, 8), "high_link_density", -25, 25>>,
        \* score -= _score("price_pattern", -15, reasons)
        <<signals.has_price_pattern, "price_pattern", -15, 15>> >>)

_score_logo_cloud(signals) ==
    RunRules(<<
        <<signals.img_count >= 6, "img_count", 25, 25>>,
        <<signals.text_len < 200, "low_text", 10, 10>>,
        <<signals.near_hero, "near_hero", 10, 10>> >>)

_score_testimonials(signals) ==
    RunRules(<<
        <<signals.has_quote_pattern, "quote_pattern", 20, 20>>,
        <<signals.grid_like, "grid_like", 15, 15>>,
        <<signals.card_count >= 3 /\ signals.img_count >= 3, "card_like", 10, 10>> >>)

_score_ratings(signals) ==
    RunRules(<< <<signals.has_rating_pattern, "rating_pattern", 30, 30>> >>)

_score_case_studies(signals) ==
    RunRules(<<
        <<signals.has_case_pattern, "case_pattern", 20, 20>>,
        <<signals.grid_like, "grid_like", 10, 10>>,
        <<signals.card_count >= 3 /\ signals.img_count >= 2, "card_like", 10, 10>> >>)

_score_feature_grid(signals) ==
    RunRules(<<
        <<signals.grid_like, "grid_like", 25, 25>>,
        <<signals.repeat_items, "repeat_items", 15, 15>>,
        <<signals.card_count >= 3, "card_count", 15, 15>> >>)

_score_cards_grid(signals) ==
    RunRules(<<
        <<signals.grid_like, "grid_like", 20, 20>>,
        <<signals.card_count >= 3, "card_count", 25, 25>>,
        <<signals.img_count >= 2, "img_count", 10, 10>>,
        <<signals.repeat_items, "repeat_items", 10, 10>> >>)

_score_feature_media(signals) ==
    RunRules(<<
        <<signals.has_media, "media", 25, 25>>,
        <<signals.has_points, "points", 15, 15>>,
        <<signals.two_column_like, "two_column", 10, 10>> >>)

_score_steps(signals) ==
    RunRules(<<
        <<signals.has_step_pattern, "step_pattern", 20, 20>>,
        <<signals.repeat_items, "repeat_items", 10, 10>> >>)

_score_stats(signals) ==
    RunRules(<< <<signals.has_stats_pattern, "stats_pattern", 25, 25>> >>)

_score_integrations(signals) ==
    RunRules(<<
        <<signals.has_integrations_pattern, "integrations_pattern", 20, 20>>,
        <<signals.grid_like, "grid_like", 10, 10>> >>)

_score_comparison(signals) ==
    RunRules(<<
        <<signals.has_table, "table", 25, 25>>,
        <<signals.has_compare_pattern, "compare_pattern", 10, 10>> >>)

_score_use_cases(signals) ==
    RunRules(<< <<signals.has_use_cases_pattern, "use_cases_pattern", 15, 15>> >>)

_score_pricing(signals) ==
    RunRules(<<
        <<signals.has_price_pattern, "price_pattern", 30, 30>>,
        <<signals.grid_like, "grid_like", 15, 15>>,
        <<signals.has_toggle_pattern, "toggle", 15, 15>> >>)

_score_plan_compare(signals) ==
    RunRules(<<
        <<signals.has_table, "table", 25, 25>>,
        <<signals.has_compare_pattern, "compare_pattern", 15, 15>> >>)

_score_faq(signals) ==
    RunRules(<<
        <<signals.has_faq_pattern, "faq", 20, 20>>,
        <<signals.has_accordion_pattern, "accordion", 25, 25>> >>)

_score_support(signals) ==
    RunRules(<<
        <<signals.has_support_pattern, "support", 20, 20>>,
        <<LinkDensityAbove(signals, 4), "link_density", 10, 10>> >>)

_score_contact(signals) ==
    RunRules(<<
        <<signals.has_contact_pattern, "contact", 20, 20>>,
        <<signals.has_form, "form", 25, 25>> >>)

_score_footer(signals) ==
    RunRules(<<
        <<signals.has_footer_tag, "footer_tag", 60, 60>>,
        <<signals.near_bottom, "near_bottom", 25, 25>>,
        <<LinkDensityAbove(signals, 8), "link_density", 25, 25>>,
        <<signals.has_footer_pattern, "footer_pattern", 15, 15>> >>)

_score_navbar(signals) ==
    RunRules(<<
        <<signals.near_top, "near_top", 20, 20>>,
        <<LinkDensityAbove(signals, 5), "link_density", 15, 15>>,
        <<signals.section_height < 160, "short_height", 10, 10>> >>)

_score_announcement(signals) ==
    RunRules(<<
        <<signals.near_top /\ signals.section_height < 80, "banner_height", 30, 30>>,
        <<signals.text_len < 120, "short_text", 10, 10>> >>)

\* add_candidate(block_type, score, reasons, family)
add_candidate(block_type, scored, family) ==
    [type |-> block_type, score |-> scored.score,
     reasons |-> scored.reasons, family |-> family]

\* the candidates list of classify_section before the sort, in append order
AllCandidates(signals) ==
    <<add_candidate("HeroCentered.v1", _score_hero(signals), "Hero"),
      add_candidate("LogoCloud.v1", _score_logo_cloud(signals), "Proof"),
      add_candidate("TestimonialsGrid.v1", _score_testimonials(signals), "Proof"),
      add_candidate("RatingsSummary.v1", _score_ratings(signals), "Proof"),
      add_candidate("CaseStudies.v1", _score_case_studies(signals), "Proof"),
      add_candidate("FeatureGrid.v1", _score_feature_grid(signals), "Feature"),
      add_candidate("CardsGrid.v1", _score_cards_grid(signals), "Feature"),
      add_candidate("FeatureWithMedia.v1", _score_feature_media(signals), "Feature"),
      add_candidate("StepsTimeline.v1", _score_steps(signals), "Feature"),
      add_candidate("StatsKPI.v1", _score_stats(signals), "Feature"),
      add_candidate("IntegrationsGrid.v1", _score_integrations(signals), "Feature"),
      add_candidate("ComparisonTable.v1", _score_comparison(signals), "Feature"),
      add_candidate("UseCases.v1", _score_use_cases(signals), "Feature"),
      add_candidate("PricingCards.v1", _score_pricing(signals), "Pricing"),
      add_candidate("PlanComparison.v1", _score_plan_compare(signals), "Pricing"),
      add_candidate("FAQAccordion.v1", _score_faq(signals), "FAQ"),
      add_candidate("SupportLinks.v1", _score_support(signals), "Support"),
      add_candidate("ContactSection.v1", _score_contact(signals), "Contact"),
      add_candidate("Footer.v1", _score_footer(signals), "Skeleton"),
      add_candidate("Navbar.v1", _score_navbar(signals), "Skeleton"),
      add_candidate("AnnouncementBar.v1", _score_announcement(signals), "Skeleton")>>

\* sorted(candidates, key=score, reverse=True) is stable: a candidate is put
\* after every candidate whose score is not lower.
RECURSIVE InsertByScore(_, _)
InsertByScore(sorted, c) ==
    IF sorted = <<>> THEN <<c>>
    ELSE IF c.score > Head(sorted).score
         THEN <<c>> \o sorted
         ELSE <<Head(sorted)>> \o InsertByScore(Tail(sorted), c)

\* variant of the sort that orders by ascending score
RECURSIVE SortAscending(_)
SortAscending(cands) ==
    IF cands = <<>> THEN <<>>
    ELSE LET rest == SortAscending(SubSeq(cands, 1, Len(cands) - 1))
             c == cands[Len(cands)]
             k == Cardinality({i \in 1..Len(rest) : rest[i].score <= c.score})
         IN  SubSeq(rest, 1, k) \o <<c>> \o SubSeq(rest, k + 1, Len(rest))

RECURSIVE SortByScoreDesc(_)
SortByScoreDesc(cands) ==
    IF cands = <<>> THEN <<>>
    ELSE InsertByScore(SortByScoreDesc(SubSeq(cands, 1, Len(cands) - 1)),
                       cands[Len(cands)])

\* candidates[:n]
Take(s, n) == SubSeq(s, 1, Min2(n, Len(s)))

\* classify_section(section, context)
classify_section(in) ==
    LET signals == _build_signals(in)
        candidates == SortByScoreDesc(AllCandidates(signals))
        family == IF candidates # <<>> THEN candidates[1].family ELSE "Unknown"
    IN  [candidates |-> Take(candidates, 5), family |-> family, signals |-> signals]

\* The default argument and the single changes applied to it.
DefaultClassifyInput ==
    [text |-> {}, textLen |-> 100, links |-> 0,
     layoutTop |-> 0, layoutHeight |-> 500,
     viewportHeight |-> DefaultViewportHeight,
     index |-> 0, total |-> 1, flags |-> {}, imgCount |-> 0, cardCount |-> 0]

ContextFlags ==
    {"grid_like", "repeat_items", "has_media", "has_points", "two_column_like",
     "has_h1", "has_footer_tag", "near_hero"}

Deviations ==
    {<<"text", t>> : t \in Vocabulary \ {"footer", "nav", "hero", "feature"}}
    \cup {<<"flag", f>> : f \in ContextFlags}
    \cup {<<"textLen", n>> : n \in {150, 400}}
    \cup {<<"links", n>> : n \in {5, 7, 9}}
    \cup {<<"position", p>> : p \in {<<0, 4>>, <<1, 4>>, <<3, 4>>}}
    \cup {<<"layoutTop", 1000>>}
    \cup {<<"layoutHeight", n>> : n \in {70, 150}}
    \cup {<<"imgCount", n>> : n \in {2, 3, 6}}
    \cup {<<"cardCount", 3>>}

\* at most one change per numeric field
Consistent(D) ==
    \A d, e \in D : (d[1] = e[1] /\ d[1] \notin {"text", "flag"}) => d = e

Pick(D, field, default) ==
    IF \E d \in D : d[1] = field
    THEN (CHOOSE d \in D : d[1] = field)[2]
    ELSE default

ApplyDeviations(D) ==
    LET pos == Pick(D, "position", <<0, 1>>) IN
    [text |-> {d[2] : d \in {e \in D : e[1] = "text"}},
     textLen |-> Pick(D, "textLen", DefaultClassifyInput.textLen),
     links |-> Pick(D, "links", DefaultClassifyInput.links),
     layoutTop |-> Pick(D, "layoutTop", DefaultClassifyInput.layoutTop),
     layoutHeight |-> Pick(D, "layoutHeight", DefaultClassifyInput.layoutHeight),
     viewportHeight |-> DefaultViewportHeight,
     index |-> pos[1], total |-> pos[2],
     flags |-> {d[2] : d \in {e \in D : e[1] = "flag"}},
     imgCount |-> Pick(D, "imgCount", DefaultClassifyInput.imgCount),
     cardCount |-> Pick(D, "cardCount", DefaultClassifyInput.cardCount)]

\* the section of the pricing scenario: its text has "pricing" and "$99/mo"
PricingScenario == {<<"text", "pricing">>, <<"text", "$99/mo">>}

\* a long section of plain text below the fold, in the middle of the page
PlainScenario == {<<"textLen", 400>>, <<"layoutTop", 1000>>, <<"position", <<1, 4>>>>}

\* the default argument, the pricing scenario and the plain section, each
\* with up to MaxDeviations changes
ClassifyInputs ==
    {ApplyDeviations(E) :
        E \in {F \in {D \cup B : D \in SubsetsUpTo(Deviations, MaxDeviations),
                                  B \in {{}, PricingScenario, PlainScenario}} :
                   Consistent(F)}}

InitClassify ==
    /\ clsIn \in ClassifyInputs
    /\ clsOut = NoResult
    /\ clsStage = "called"
    /\ ClassifyAlone

\* one call of classify_section
Classify ==
    /\ clsStage = "called"
    /\ clsOut' = classify_section(clsIn)
    /\ clsStage' = "returned"
    /\ UNCHANGED clsIn
    /\ UNCHANGED clsOthers

NextClassify == Classify

SpecClassify == InitClassify /\ [][NextClassify]_vars

(***************************************************************************)
(* Section Extractor: capture.py, _extract_section_boxes /                 *)
(* _extract_section_payloads (the suppression code is the same in both)    *)
(***************************************************************************)
MaxElems == 3

viewportWidth == 1440

\* Bounding rectangles of the DOM elements of the modelled pages.
\* 1,2: the spec's near-duplicate pair; 3: near-duplicate of 2 but not of 1;
\* 4: same top as 1, taller; 5: too short; 6: too narrow; 7: same rect as 1.
ElemRect ==
    <<[top |-> 0,   left |-> 0, width |-> 800, height |-> 200],
      [top |-> 10,  left |-> 5, width |-> 790, height |-> 195],
      [top |-> 25,  left |-> 5, width |-> 790, height |-> 195],
      [top |-> 0,   left |-> 0, width |-> 800, height |-> 400],
      [top |-> 300, left |-> 0, width |-> 800, height |-> 50],
      [top |-> 300, left |-> 0, width |-> 600, height |-> 200],
      [top |-> 0,   left |-> 0, width |-> 800, height |-> 200]>>

Elems == 1..Len(ElemRect)

\* pushEl's size test: true when the element is rejected.
\* rect.width < Math.min(320, vw * 0.4), then rect.width < vw * 0.5
TooSmall(rect) ==
    \/ rect.height < 60
    \/ 10 * rect.width < Min2(3200, viewportWidth * 4)
    \/ 2 * rect.width < viewportWidth

\* selectors.forEach(... pushEl(el)): the elements kept, in first-seen order.
RECURSIVE PushAll(_, _, _)
PushAll(dom, seen, acc) ==
    IF dom = <<>> THEN acc
    ELSE LET el == Head(dom) IN
         IF el \in seen THEN PushAll(Tail(dom), seen, acc)
         ELSE IF TooSmall(ElemRect[el])
              THEN PushAll(Tail(dom), seen \cup {el}, acc)
              ELSE PushAll(Tail(dom), seen \cup {el}, Append(acc, el))

\* variant of the comparator that ignores the height tie-break
SortsBeforeTopOnly(a, b) ==
    ElemRect[a].top < ElemRect[b].top

\* The sort comparator: (a.top - b.top) || (b.height - a.height) < 0
SortsBefore(a, b) ==
    \/ ElemRect[a].top < ElemRect[b].top
    \/ /\ ElemRect[a].top = ElemRect[b].top
       /\ ElemRect[a].height > ElemRect[b].height

\* Array.prototype.sort is stable: an element goes after every element that
\* does not sort strictly after it.
RECURSIVE InsertSorted(_, _)
InsertSorted(sorted, el) ==
    IF sorted = <<>> THEN <<el>>
    ELSE IF SortsBefore(el, Head(sorted))
         THEN <<el>> \o sorted
         ELSE <<Head(sorted)>> \o InsertSorted(Tail(sorted), el)

RECURSIVE SortCandidates(_)
SortCandidates(s) ==
    IF s = <<>> THEN <<>>
    ELSE InsertSorted(SortCandidates(SubSeq(s, 1, Len(s) - 1)), s[Len(s)])

\* iou(a, b): numerator and denominator of inter / denom
IoUInter(a, b) ==
    LET x1 == Max2(a.left, b.left)
        y1 == Max2(a.top, b.top)
        x2 == Min2(a.left + a.width, b.left + b.width)
        y2 == Min2(a.top + a.height, b.top + b.height)
    IN  Max2(0, x2 - x1) * Max2(0, y2 - y1)

IoUDenom(a, b) ==
    a.width * a.height + b.width * b.height - IoUInter(a, b)

\* variant of the duplicate test with a threshold of 0.95
IoUAbove95(a, b) ==
    /\ IoUDenom(a, b) > 0
    /\ 100 * IoUInter(a, b) > 95 * IoUDenom(a, b)

\* iou(f.rect, rect) > 0.85 (iou is 0 when denom is not positive)
IoUAbove85(a, b) ==
    /\ IoUDenom(a, b) > 0
    /\ 100 * IoUInter(a, b) > 85 * IoUDenom(a, b)

\* filtered.find((f) => iou(f.rect, rect) > 0.85)
HasDup(filtered, el) ==
    \E i \in 1..Len(filtered) : IoUAbove85(ElemRect[filtered[i]], ElemRect[el])

\* The DOM tree of the modelled pages: the parent of each element (0: the
\* element is a child of body or main). Element 1 lies in its wrapper 7,
\* which lies in the taller element 4.
ElemParent == <<7, 0, 0, 0, 0, 0, 4>>

\* the leaf nodes atomsFrom's selector list matches, in document order: the
\* element each lies in (0: in no modelled element) and its rendered size
LeafNodes ==
    <<[parent |-> 4, width |-> 300, height |-> 40],
      [parent |-> 1, width |-> 300, height |-> 20],
      [parent |-> 1, width |-> 4,   height |-> 4],
      [parent |-> 2, width |-> 120, height |-> 30],
      [parent |-> 6, width |-> 120, height |-> 30],
      [parent |-> 0, width |-> 120, height |-> 30]>>

\* el is root or a descendant of root
RECURSIVE Within(_, _)
Within(el, root) ==
    IF el = 0 THEN FALSE
    ELSE IF el = root THEN TRUE
    ELSE Within(ElemParent[el], root)

\* atoms.length >= 60: break
MaxAtomsPerSection == 60

\* atomsFrom(root): the leaves under root that are at least 8 x 8, at most 60
atomsFrom(root) ==
    Take(SelectSeq([i \in 1..Len(LeafNodes) |-> i],
                   LAMBDA leaf : /\ Within(LeafNodes[leaf].parent, root)
                                 /\ ~(LeafNodes[leaf].width < 8 \/ LeafNodes[leaf].height < 8)),
         MaxAtomsPerSection)

InitExtract ==
    /\ exDom \in SeqsUpTo(Elems, MaxElems)
    /\ exCandidates = <<>>
    /\ exFiltered = <<>>
    /\ exDropped = {}
    /\ exPos = 0
    /\ exAtoms = <<>>
    /\ exStage = "dom"
    /\ ExtractAlone

\* pushEl over every selector match, then candidates.sort(...)
CollectCandidates ==
    /\ exStage = "dom"
    /\ exCandidates' = SortCandidates(PushAll(exDom, {}, <<>>))
    /\ exPos' = 1
    /\ exStage' = "suppress"
    /\ UNCHANGED <<exDom, exFiltered, exDropped, exAtoms>>
    /\ UNCHANGED exOthers

\* one iteration of the forEach: keep the item unless a kept one is a duplicate
SuppressStep ==
    /\ exStage = "suppress"
    /\ exPos <= Len(exCandidates)
    /\ LET el == exCandidates[exPos] IN
       IF HasDup(exFiltered, el)
       THEN /\ exDropped' = exDropped \cup {el}
            /\ UNCHANGED exFiltered
       ELSE /\ exFiltered' = Append(exFiltered, el)
            /\ UNCHANGED exDropped
    /\ exPos' = exPos + 1
    /\ UNCHANGED <<exDom, exCandidates, exAtoms, exStage>>
    /\ UNCHANGED exOthers

\* the forEach is over: filtered.map(...) is returned, and in
\* _extract_section_payloads every accepted element gets its atoms
ReturnBoxes ==
    /\ exStage = "suppress"
    /\ exPos > Len(exCandidates)
    /\ exAtoms' = [i \in 1..Len(exFiltered) |-> atomsFrom(exFiltered[i])]
    /\ exStage' = "done"
    /\ UNCHANGED <<exDom, exCandidates, exFiltered, exDropped, exPos>>
    /\ UNCHANGED exOthers

NextExtract ==
    \/ CollectCandidates
    \/ SuppressStep
    \/ ReturnBoxes

SpecExtract == InitExtract /\ [][NextExtract]_vars

(***************************************************************************)
(* Design Token Extractor: theme.py                                        *)
(***************************************************************************)
MaxSampleFields == 2

\* Python values of the model: None, and the result of a call that may raise
None == [k |-> "none"]

Ok(v) == [exc |-> "none", val |-> v]

Raise(e) == [exc |-> e, val |-> None]

\* round(n / d) of Python 3 (ties go to the even integer), d # 0
RoundHalfEven(n, d) ==
    LET nn == IF d < 0 THEN -n ELSE n
        dd == IF d < 0 THEN -d ELSE d
        q == nn \div dd
        r == nn - q * dd
    IN  IF 2 * r < dd THEN q
        ELSE IF 2 * r > dd THEN q + 1
        ELSE IF q % 2 = 0 THEN q ELSE q + 1

\* An "H S% L%" string: its three numbers, in tenths ("221 83% 53%" is
\* <<2210, 830, 530>>); f"{round(h * 360)} {round(s * 100)}% {round(l * 100)}%"
HslString(h, s, l) == [k |-> "str", parts |-> <<10 * h, 10 * s, 10 * l>>]

\* truncation toward zero: int(float(part))
IntOfTenths(t) == IF t >= 0 THEN t \div 10 ELSE -((-t) \div 10)

\* _parse_hsl(value): the integer triple, or None
_parse_hsl(value) ==
    IF value.k # "str" \/ Len(value.parts) = 0 THEN None
    ELSE IF Len(value.parts) < 3 THEN None
    ELSE [k |-> "triple",
          h |-> IntOfTenths(value.parts[1]),
          s |-> IntOfTenths(value.parts[2]),
          l |-> IntOfTenths(value.parts[3])]

Max3(a, b, c) == Max2(a, Max2(b, c))

Min3(a, b, c) == Min2(a, Min2(b, c))

\* _rgb_channels_to_hsl(r, g, b) with r = cr / 255, g = cg / 255, b = cb / 255
_rgb_channels_to_hsl(cr, cg, cb) ==
    LET mx == Max3(cr, cg, cb)
        mn == Min3(cr, cg, cb)
        d == mx - mn
        \* l = (max_c + min_c) / 2, l > 0.5 iff mx + mn > 255
        sDen == IF mx + mn > 255 THEN 510 - mx - mn ELSE mx + mn
        \* h * 360 = 60 * (.. / d) + offset
        hNum == IF mx = cr THEN 60 * (cg - cb) + (IF cg < cb THEN 360 * d ELSE 0)
                ELSE IF mx = cg THEN 60 * (cb - cr) + 120 * d
                ELSE 60 * (cr - cg) + 240 * d
    IN  IF mx = mn
        THEN Ok(HslString(0, 0, RoundHalfEven(100 * (mx + mn), 510)))
        ELSE IF sDen = 0 THEN Raise("ZeroDivisionError")
        ELSE Ok(HslString(RoundHalfEven(hNum, d),
                          RoundHalfEven(100 * d, sDen),
                          RoundHalfEven(100 * (mx + mn), 510)))

\* An argument between the commas of rgb(..): an integer literal, another
\* number (value in hundredths) or a non-numeric word.
IntArg(n) == [t |-> "int", v100 |-> 100 * n]

FloatArg(h) == [t |-> "float", v100 |-> h]

WordArg == [t |-> "word", v100 |-> 0]

\* _rgb_to_hsl(color): int(values[0..2]), float(values[3]) under
\* try/except (ValueError, IndexError)
_rgb_to_hsl(color) ==
    LET values == color.args IN
    IF Len(values) < 3 THEN Ok(None)                          \* IndexError
    ELSE IF \E i \in 1..3 : values[i].t # "int" THEN Ok(None) \* ValueError
    ELSE IF Len(values) > 3 /\ values[4].t = "word" THEN Ok(None)
    ELSE LET alpha100 == IF Len(values) > 3 THEN values[4].v100 ELSE 100 IN
         IF alpha100 <= 1 THEN Ok(None)
         ELSE _rgb_channels_to_hsl(values[1].v100 \div 100,
                                   values[2].v100 \div 100,
                                   values[3].v100 \div 100)

\* Hexadecimal digits are 0..15; NotHex stands for a character that is not one.
NotHex == 16

\* int(hex_value[i:i+2], 16)
HexPair(digits, i) == 16 * digits[i] + digits[i + 1]

\* _hex_to_hsl(color)
_hex_to_hsl(color) ==
    IF color.form \in {"none", "empty"} THEN Ok(None)       \* if not color
    ELSE IF color.form = "rgb" THEN _rgb_to_hsl(color)      \* startswith("rgb")
    ELSE IF color.form # "hex" THEN Ok(None)                \* not startswith("#")
    ELSE LET hex_value == IF Len(color.digits) = 3
                          THEN <<color.digits[1], color.digits[1],
                                 color.digits[2], color.digits[2],
                                 color.digits[3], color.digits[3]>>
                          ELSE color.digits
         IN  IF Len(hex_value) # 6 THEN Ok(None)
             \* int(.., 16) is not guarded
             ELSE IF \E i \in 1..6 : hex_value[i] = NotHex THEN Raise("ValueError")
             ELSE _rgb_channels_to_hsl(HexPair(hex_value, 1),
                                       HexPair(hex_value, 3),
                                       HexPair(hex_value, 5))

\* Colour values of the modelled samples
NoValue == [form |-> "none", digits |-> <<>>, args |-> <<>>, word |-> ""]

Hex(digits) == [form |-> "hex", digits |-> digits, args |-> <<>>, word |-> ""]

Rgb(args) == [form |-> "rgb", digits |-> <<>>, args |-> args, word |-> ""]

Word(w) == [form |-> "word", digits |-> <<>>, args |-> <<>>, word |-> w]

WellFormedColors ==
    <<Hex(<<15, 15, 15, 15, 15, 15>>),                   \* #ffffff
      Hex(<<2, 5, 6, 3, 14, 11>>),                       \* #2563eb
      Hex(<<1, 2, 3>>),                                  \* #123
      Rgb(<<IntArg(220), IntArg(38), IntArg(38)>>),      \* rgb(220, 38, 38)
      Rgb(<<IntArg(100), IntArg(100), IntArg(110)>>),    \* rgb(100, 100, 110)
      Rgb(<<IntArg(15), IntArg(23), IntArg(42), FloatArg(50)>>)>> \* rgba(15, 23, 42, 0.5)

MalformedColors ==
    <<Hex(<<1, 2, 3, 4, 5, NotHex>>),                    \* #12345g
      Hex(<<NotHex, 1, 2>>),                             \* #g12
      Hex(<<1, 2, 3, 4, 5>>),                            \* #12345
      Rgb(<<IntArg(1), IntArg(2)>>),                     \* rgb(1, 2)
      Rgb(<<WordArg, IntArg(2), IntArg(3)>>),            \* rgb(a, 2, 3)
      Rgb(<<IntArg(1), IntArg(2), IntArg(3), WordArg>>), \* rgba(1, 2, 3, x)
      Word("red")>>

\* well-formed strings whose channels are not in 0..255
OutOfRangeColors ==
    <<Rgb(<<IntArg(510), IntArg(0), IntArg(0)>>)>>       \* rgb(510, 0, 0)

TransparentColors ==
    <<Rgb(<<IntArg(0), IntArg(0), IntArg(0), IntArg(0)>>)>> \* rgba(0, 0, 0, 0)

ColorValues == WellFormedColors \o MalformedColors \o OutOfRangeColors \o TransparentColors

\* value -> count dictionaries, in insertion order
ColorCounts ==
    << << <<Rgb(<<IntArg(100), IntArg(100), IntArg(110)>>), 5>>,
          <<Rgb(<<IntArg(220), IntArg(38), IntArg(38)>>), 3>> >>,
       << <<Hex(<<15, 15, 15, 15, 15, 15>>), 2>>,
          <<Rgb(<<IntArg(220), IntArg(38), IntArg(38)>>), 2>> >>,
       << <<Hex(<<NotHex, 1, 2>>), 4>> >> >>

FontValues == <<"Georgia, serif", "Arial, sans-serif">>

FontCounts == << << <<"Inter", 3>>, <<"Georgia, serif", 7>> >> >>

RadiusValues == <<"4px">>

RadiusCounts == << << <<"6px", 2>>, <<"0px", 2>> >> >>

\* padding / margin strings, as their whitespace-separated tokens:
\* [px |-> TRUE, v |-> n] is "<n>px", [px |-> FALSE, ..] any other token
Px(n) == [px |-> TRUE, v |-> n]

SpacingCounts ==
    << << <<<<Px(16), Px(24)>>, 3>>, <<<<Px(16)>>, 1>>, <<<<Px(2)>>, 9>> >>,
       << <<<<Px(0)>>, 12>>, <<<<[px |-> FALSE, v |-> 0]>>, 2>> >>,
       << <<<<Px(32), Px(32)>>, 1>> >> >>

\* root_vars entries and body / button / link / card / border samples
ColorFields ==
    {"body_bg", "body_color", "button_bg", "button_color", "link_color",
     "card_bg", "border_color", "--primary", "--primary-foreground"}

SampleFields ==
    ColorFields \cup
    {"computed_bg_colors", "computed_text_colors", "body_font", "heading_font",
     "computed_fonts", "button_radius", "computed_radius",
     "computed_padding", "computed_margin"}

\* the values a key of samples can hold
FieldValues(f) ==
    IF f \in ColorFields THEN ColorValues
    ELSE IF f \in {"computed_bg_colors", "computed_text_colors"} THEN ColorCounts
    ELSE IF f \in {"body_font", "heading_font"} THEN FontValues
    ELSE IF f = "computed_fonts" THEN FontCounts
    ELSE IF f = "button_radius" THEN RadiusValues
    ELSE IF f = "computed_radius" THEN RadiusCounts
    ELSE SpacingCounts

\* what samples.get(key) gives for a key that is absent, after "or {}"
Absent(f) ==
    IF f \in ColorFields THEN NoValue
    ELSE IF f \in {"body_font", "heading_font", "button_radius"} THEN ""
    ELSE <<>>

\* a key and the position of its value in FieldValues
SampleSettings == UNION {{<<f, i>> : i \in 1..Len(FieldValues(f))} : f \in SampleFields}

IsSamples(D) == \A p, q \in D : p[1] = q[1] => p = q

\* the samples dict with the keys of D present
MakeSamples(D) ==
    [f \in SampleFields |->
        IF \E p \in D : p[1] = f
        THEN FieldValues(f)[(CHOOSE p \in D : p[1] = f)[2]]
        ELSE Absent(f)]

SamplesInputs ==
    {MakeSamples(D) :
        D \in {E \in SubsetsUpTo(SampleSettings, MaxSampleFields) :
                  IsSamples(E)}}

\* samples.get(key) for a colour: the value, or None
GetColor(samples, f) == samples[f]

\* samples.get(key) or {} for a counts dict
GetCounts(samples, f) == samples[f]

\* sorted(counts.items(), key=count, reverse=True): stable
RECURSIVE SortByCountDesc(_)
SortByCountDesc(items) ==
    IF items = <<>> THEN <<>>
    ELSE LET rest == SortByCountDesc(SubSeq(items, 1, Len(items) - 1))
             it == items[Len(items)]
             k == Cardinality({i \in 1..Len(rest) : rest[i][2] >= it[2]})
         IN  SubSeq(rest, 1, k) \o <<it>> \o SubSeq(rest, k + 1, Len(rest))

\* _top_count_value(counts) for colours
_top_count_value(counts) ==
    IF counts = <<>> THEN NoValue ELSE SortByCountDesc(counts)[1][1]

\* _top_count_value(counts) for fonts and radii ("" stands for None)
_top_count_string(counts) ==
    IF counts = <<>> THEN "" ELSE SortByCountDesc(counts)[1][1]

\* _top_n_values(counts, n)
_top_n_values(counts, n) ==
    LET sorted == SortByCountDesc(counts)
    IN  [i \in 1..Min2(n, Len(sorted)) |-> sorted[i][1]]

\* _pick_vivid_color(counts): first colour by frequency with saturation >= 15
RECURSIVE PickVivid(_)
PickVivid(sorted) ==
    IF sorted = <<>> THEN Ok(NoValue)
    ELSE LET value == sorted[1][1]
             hsl == _hex_to_hsl(value)
         IN  IF hsl.exc # "none" THEN Raise(hsl.exc)
             ELSE IF hsl.val = None THEN PickVivid(Tail(sorted))
             ELSE IF _parse_hsl(hsl.val).s >= 15 THEN Ok(value)
             ELSE PickVivid(Tail(sorted))

_pick_vivid_color(counts) == PickVivid(SortByCountDesc(counts))

\* a or b, for colour values
OrColor(a, b) == IF a.form \in {"none", "empty"} THEN b ELSE a

OrString(a, b) == IF a = "" THEN b ELSE a

\* _extract_px_values(counts): the positive pixel values of every key
RECURSIVE PxOfTokens(_)
PxOfTokens(tokens) ==
    IF tokens = <<>> THEN <<>>
    ELSE (IF tokens[1].px /\ tokens[1].v > 0 THEN <<tokens[1].v>> ELSE <<>>)
         \o PxOfTokens(Tail(tokens))

RECURSIVE _extract_px_values(_)
_extract_px_values(counts) ==
    IF counts = <<>> THEN <<>>
    ELSE PxOfTokens(counts[1][1]) \o _extract_px_values(Tail(counts))

\* _infer_spacing_scale(padding_counts, margin_counts)
_infer_spacing_scale(padding_counts, margin_counts) ==
    LET values == _extract_px_values(padding_counts) \o _extract_px_values(margin_counts)
        freq(v) == Cardinality({i \in 1..Len(values) : values[i] = v})
        \* sorted(freq.items(), key=(-count, value))[0][0]
        best == CHOOSE v \in Range(values) :
                    \A w \in Range(values) :
                        \/ freq(v) > freq(w)
                        \/ (freq(v) = freq(w) /\ v <= w)
        base == Min2(Max2(best, 4), 12)
    IN  IF values = <<>> THEN None
        ELSE [k |-> "spacing", base |-> base,
              scale |-> <<base, base * 2, base * 3, base * 4, base * 6>>]

DefaultSpacing == [k |-> "spacing", base |-> 8, scale |-> <<8, 16, 24, 32>>]

\* the fixed fallback of each colour token
DefaultColor(token) ==
    CASE token = "background" -> HslString(0, 0, 100)
      [] token = "foreground" -> HslString(222, 47, 11)
      [] token = "primary" -> HslString(221, 83, 53)
      [] token = "primary_foreground" -> HslString(0, 0, 100)
      [] token = "secondary" -> HslString(199, 89, 48)
      [] token = "secondary_foreground" -> HslString(222, 47, 11)
      [] token = "muted" -> HslString(210, 40, 96)
      [] token = "muted_foreground" -> HslString(215, 25, 27)
      [] token = "border" -> HslString(214, 32, 91)

ColorTokens ==
    <<"background", "foreground", "primary", "primary_foreground", "secondary",
      "secondary_foreground", "muted", "muted_foreground", "border">>

\* "serif" in body_font.lower() and "sans" not in body_font.lower()
IsSerifOnly(font) == font = "Georgia, serif"

\* _brand_profile(tokens)
_brand_profile(colors, body_font) ==
    LET p == _parse_hsl(colors["primary"])
        b == _parse_hsl(colors["background"])
        primary == IF p = None THEN [k |-> "triple", h |-> 220, s |-> 60, l |-> 50] ELSE p
        bg_light == IF b = None THEN 100 ELSE b.l
        diff == IF bg_light >= primary.l THEN bg_light - primary.l ELSE primary.l - bg_light
    IN  [color_mood |-> IF primary.s >= 60 THEN "vivid" ELSE "muted",
         color_tone |-> IF primary.l >= 60 THEN "bright" ELSE "deep",
         contrast |-> IF diff >= 50 THEN "high" ELSE "low",
         typography |-> IF IsSerifOnly(body_font) THEN "serif" ELSE "sans"]

\* build_theme_tokens(samples): [raised, exc, tokens]
build_theme_tokens(samples) ==
    LET computed_bg == _top_count_value(GetCounts(samples, "computed_bg_colors"))
        computed_text == _top_count_value(GetCounts(samples, "computed_text_colors"))
        body_bg == OrColor(GetColor(samples, "body_bg"),
                           OrColor(computed_bg, Hex(<<15, 15, 15, 15, 15, 15>>)))
        body_color == OrColor(GetColor(samples, "body_color"),
                              OrColor(computed_text, Hex(<<0, 15, 1, 7, 2, 10>>)))
        \* _pick_root_var(..) or (samples.get("button_bg") or _pick_vivid_color(..) or "#2563eb")
        early == OrColor(GetColor(samples, "--primary"), GetColor(samples, "button_bg"))
        vivid == IF early.form \in {"none", "empty"}
                 THEN _pick_vivid_color(GetCounts(samples, "computed_text_colors"))
                 ELSE Ok(NoValue)
        vividValue == IF vivid.exc = "none" THEN vivid.val ELSE NoValue
        button_bg == OrColor(early, OrColor(vividValue, Hex(<<2, 5, 6, 3, 14, 11>>)))
        button_color == OrColor(GetColor(samples, "--primary-foreground"),
                                OrColor(GetColor(samples, "button_color"),
                                        Hex(<<15, 15, 15, 15, 15, 15>>)))
        link_color == OrColor(GetColor(samples, "link_color"), Hex(<<0, 14, 10, 5, 14, 9>>))
        card_bg == OrColor(GetColor(samples, "card_bg"), Hex(<<15, 8, 15, 10, 15, 12>>))
        border_color == OrColor(GetColor(samples, "border_color"),
                                Hex(<<14, 2, 14, 8, 15, 0>>))
        computed_radius == _top_count_string(GetCounts(samples, "computed_radius"))
        radius == OrString(samples["button_radius"], OrString(computed_radius, "12px"))
        spacing == _infer_spacing_scale(GetCounts(samples, "computed_padding"),
                                        GetCounts(samples, "computed_margin"))
        source == [t \in Range(ColorTokens) |->
                     CASE t = "background" -> body_bg
                       [] t = "foreground" -> body_color
                       [] t = "primary" -> button_bg
                       [] t = "primary_foreground" -> button_color
                       [] t = "secondary" -> link_color
                       [] t = "secondary_foreground" -> body_color
                       [] t = "muted" -> card_bg
                       [] t = "muted_foreground" -> body_color
                       [] t = "border" -> border_color]
        converted == [t \in Range(ColorTokens) |-> _hex_to_hsl(source[t])]
        colors == [t \in Range(ColorTokens) |->
                     IF converted[t].val = None THEN DefaultColor(t) ELSE converted[t].val]
        body_font == samples["body_font"]
        heading_font == samples["heading_font"]
        top_font == _top_count_string(GetCounts(samples, "computed_fonts"))
        typography == [body |-> OrString(body_font, OrString(top_font, "Inter")),
                       heading |-> OrString(heading_font,
                                       OrString(body_font, OrString(top_font, "Inter")))]
        \* the first call that raises ends build_theme_tokens
        failures == (IF vivid.exc # "none" THEN <<vivid.exc>> ELSE <<>>)
                    \o SelectSeq([i \in 1..Len(ColorTokens) |-> converted[ColorTokens[i]].exc],
                                 LAMBDA e : e # "none")
    IN  IF failures # <<>>
        THEN [raised |-> TRUE, exc |-> failures[1], tokens |-> <<>>]
        ELSE [raised |-> FALSE, exc |-> "none",
              tokens |-> [colors |-> colors,
                          typography |-> typography,
                          radius |-> radius,
                          spacing |-> IF spacing = None THEN DefaultSpacing ELSE spacing,
                          palette |-> [text |-> _top_n_values(GetCounts(samples, "computed_text_colors"), 3),
                                       background |-> _top_n_values(GetCounts(samples, "computed_bg_colors"), 3)],
                          brand |-> _brand_profile(colors, typography.body)]]

InitTheme ==
    /\ thSamples \in SamplesInputs
    /\ thOut = NoTokens
    /\ thStage = "called"
    /\ ThemeAlone

\* one call of build_theme_tokens
BuildThemeTokens ==
    /\ thStage = "called"
    /\ thOut' = build_theme_tokens(thSamples)
    /\ thStage' = IF thOut'.raised THEN "raised" ELSE "returned"
    /\ UNCHANGED thSamples
    /\ UNCHANGED thOthers

NextTheme == BuildThemeTokens

SpecTheme == InitTheme /\ [][NextTheme]_vars

(***************************************************************************)
(* Section Composer: map.py, map_sections                                  *)
(***************************************************************************)
MaxTitles == 2

\* registry["types"]: every block type the pipeline names
AllBlocks ==
    {"HeroCentered.v1", "HeroSplit.v1", "LogoCloud.v1", "TestimonialsGrid.v1",
     "RatingsSummary.v1", "CaseStudies.v1", "FeatureGrid.v1", "CardsGrid.v1",
     "FeatureWithMedia.v1", "StepsTimeline.v1", "StatsKPI.v1",
     "IntegrationsGrid.v1", "ComparisonTable.v1", "UseCases.v1",
     "PricingCards.v1", "PlanComparison.v1", "FAQAccordion.v1",
     "SupportLinks.v1", "ContactSection.v1", "LeadCaptureCTA.v1",
     "Footer.v1", "Navbar.v1", "AnnouncementBar.v1"}

\* available_blocks: the registry types, possibly cut down by the puck blocks
AvailableChoices == <<AllBlocks, AllBlocks \ {"Footer.v1", "PricingCards.v1"}>>

\* headings / captured section titles of the modelled pages
Titles == {"Pricing", "Footer", "Intelligent platform"}

\* The search strings of map.py that text.lower() contains
ContainedKeys(text) ==
    CASE text \in {"Pricing", "Auto Pricing"} -> {"pricing"}
      [] text \in {"Intelligent platform", "Intelligent platform - cards"}
             -> {"platform", "intelligent"}
      [] text \in {"Hero", "Auto Hero"} -> {"hero"}
      [] text = "Testimonials" -> {"testimonial"}
      [] text = "Logo Cloud" -> {"logo"}
      [] text \in {"FAQ", "Auto FAQ"} -> {"faq"}
      [] text = "Auto Features" -> {"feature"}
      [] OTHER -> {}   \* "Footer", "CTA", "Section", "Auto CTA", "Auto Footer", "Auto Proof"

\* SECTION_KEYWORDS, in dict order
SECTION_KEYWORDS ==
    << <<"hero", "HeroCentered.v1">>, <<"feature", "FeatureGrid.v1">>,
       <<"benefit", "FeatureGrid.v1">>, <<"solution", "UseCases.v1">>,
       <<"use case", "UseCases.v1">>, <<"latest", "CardsGrid.v1">>,
       <<"news", "CardsGrid.v1">>, <<"press", "CardsGrid.v1">>,
       <<"military", "CardsGrid.v1">>, <<"maritime", "CardsGrid.v1">>,
       <<"land", "CardsGrid.v1">>, <<"pricing", "PricingCards.v1">>,
       <<"price", "PricingCards.v1">>, <<"faq", "FAQAccordion.v1">>,
       <<"question", "FAQAccordion.v1">>, <<"testimonial", "TestimonialsGrid.v1">>,
       <<"case", "CaseStudies.v1">>, <<"logo", "LogoCloud.v1">>,
       <<"customer", "LogoCloud.v1">>, <<"team", "CardsGrid.v1">>,
       <<"leadership", "CardsGrid.v1">>, <<"people", "CardsGrid.v1">>,
       <<"board", "CardsGrid.v1">>, <<"product", "CardsGrid.v1">>,
       <<"products", "CardsGrid.v1">>, <<"contact", "ContactSection.v1">>,
       <<"support", "SupportLinks.v1">>, <<"integration", "IntegrationsGrid.v1">>,
       <<"compare", "ComparisonTable.v1">>, <<"comparison", "ComparisonTable.v1">>,
       <<"stats", "StatsKPI.v1">>, <<"timeline", "StepsTimeline.v1">>,
       <<"process", "StepsTimeline.v1">> >>

\* the value of the first entry of SECTION_KEYWORDS among those at the
\* positions hits (the entries that pass the test of the loop), or ""
FirstKeyword(hits) ==
    IF hits = {} THEN ""
    ELSE SECTION_KEYWORDS[CHOOSE i \in hits : \A j \in hits : i <= j][2]

\* _select_block_type_from_text(text, available_blocks); "" stands for None
_select_block_type_from_text(text, available_blocks) ==
    LET lower == ContainedKeys(text)
        has(k) == k \in lower
    IN  IF has("case study") /\ "CaseStudies.v1" \in available_blocks
        THEN "CaseStudies.v1"
        ELSE IF has("testimonial") /\ "TestimonialsGrid.v1" \in available_blocks
        THEN "TestimonialsGrid.v1"
        ELSE IF (has("logo") \/ has("trusted")) /\ "LogoCloud.v1" \in available_blocks
        THEN "LogoCloud.v1"
        ELSE IF (has("pricing") \/ has("price") \/ has("plan") \/ has("subscription"))
                /\ "PricingCards.v1" \in available_blocks
        THEN "PricingCards.v1"
        ELSE IF (has("faq") \/ has("question")) /\ "FAQAccordion.v1" \in available_blocks
        THEN "FAQAccordion.v1"
        ELSE IF "CardsGrid.v1" \in available_blocks
                /\ \E k \in {"team", "leadership", "people", "board", "profile",
                             "member", "speaker", "product", "products",
                             "portfolio", "collection", "case study", "news",
                             "press", "article", "blog", "latest"} : has(k)
        THEN "CardsGrid.v1"
        ELSE IF (\E k \in {"contact", "demo", "get started", "signup", "sign up", "book"} : has(k))
                /\ "LeadCaptureCTA.v1" \in available_blocks
        THEN "LeadCaptureCTA.v1"
        ELSE IF (\E k \in {"contact", "demo", "get started", "signup", "sign up", "book"} : has(k))
                /\ "ContactSection.v1" \in available_blocks
        THEN "ContactSection.v1"
        ELSE FirstKeyword({i \in 1..Len(SECTION_KEYWORDS) :
                              /\ has(SECTION_KEYWORDS[i][1])
                              /\ SECTION_KEYWORDS[i][2] \in available_blocks})

\* _layout_schema_label(block_type, [])
_layout_schema_label(block_type) ==
    CASE block_type \in {"HeroCentered.v1", "HeroSplit.v1"} -> "Hero"
      [] block_type = "PricingCards.v1" -> "Pricing"
      [] block_type = "FAQAccordion.v1" -> "FAQ"
      [] block_type \in {"Footer.v1", "SupportLinks.v1"} -> "Footer"
      [] block_type \in {"LeadCaptureCTA.v1", "ContactSection.v1"} -> "CTA"
      [] block_type \in {"LogoCloud.v1", "TestimonialsGrid.v1", "CaseStudies.v1"} -> "Proof"
      [] block_type \in {"FeatureGrid.v1", "UseCases.v1", "IntegrationsGrid.v1",
                         "StatsKPI.v1", "StepsTimeline.v1", "ComparisonTable.v1"}
             -> "Features"
      [] OTHER -> "Section"

Sec(type, source) == [type |-> type, source |-> source]

\* the elements of s whose index is in S, in order
RECURSIVE SubSeqAt(_, _)
SubSeqAt(s, S) ==
    IF s = <<>> THEN <<>>
    ELSE SubSeqAt(SubSeq(s, 1, Len(s) - 1), S)
         \o (IF Len(s) \in S THEN <<s[Len(s)]>> ELSE <<>>)

\* for heading in section_titles[1:]
RECURSIVE HeadingSections(_, _, _)
HeadingSections(headings, has_capture_layout, available_blocks) ==
    IF headings = <<>> THEN <<>>
    ELSE LET heading == Head(headings)
             lower == ContainedKeys(heading)
             keyword == FirstKeyword({i \in 1..Len(SECTION_KEYWORDS) :
                                         SECTION_KEYWORDS[i][1] \in lower})
             selected == IF keyword # "" /\ keyword \in available_blocks
                         THEN keyword
                         ELSE IF "faq" \in lower \/ "question" \in lower
                              THEN "FAQAccordion.v1"
                              ELSE "FeatureGrid.v1"
             rest == HeadingSections(Tail(headings), has_capture_layout, available_blocks)
         IN  IF /\ ~has_capture_layout
                /\ "FeatureWithMedia.v1" \in available_blocks
                /\ "CardsGrid.v1" \in available_blocks
                /\ "platform" \in lower
                /\ "intelligent" \in lower
             THEN <<Sec("FeatureWithMedia.v1", heading),
                    Sec("CardsGrid.v1", "Intelligent platform - cards")>> \o rest
             ELSE IF selected \in available_blocks
                  THEN <<Sec(selected, heading)>> \o rest
                  ELSE rest

\* the blocks appended from the page text when there is no capture layout
TextSections(text_blob, available_blocks) ==
    (IF "PricingCards.v1" \in available_blocks
        /\ \E k \in {"pricing", "$\\d", "/mo", "/yr"} : k \in text_blob
     THEN <<Sec("PricingCards.v1", "Pricing")>> ELSE <<>>)
    \o (IF "TestimonialsGrid.v1" \in available_blocks
           /\ ("testimonial" \in text_blob \/ "case study" \in text_blob)
        THEN <<Sec("TestimonialsGrid.v1", "Testimonials")>> ELSE <<>>)
    \o (IF "LogoCloud.v1" \in available_blocks
           /\ ("logo" \in text_blob \/ "trusted by" \in text_blob)
        THEN <<Sec("LogoCloud.v1", "Logo Cloud")>> ELSE <<>>)
    \o (IF "FAQAccordion.v1" \in available_blocks /\ "faq" \in text_blob
        THEN <<Sec("FAQAccordion.v1", "FAQ")>> ELSE <<>>)
    \o (IF "LeadCaptureCTA.v1" \in available_blocks
        THEN <<Sec("LeadCaptureCTA.v1", "CTA")>> ELSE <<>>)
    \o (IF "Footer.v1" \in available_blocks
        THEN <<Sec("Footer.v1", "Footer")>> ELSE <<>>)

\* the (type, source) de-duplication: the first occurrence is kept
Deduped(mapped) ==
    SubSeqAt(mapped, {i \in 1..Len(mapped) : \A j \in 1..(i - 1) : mapped[j] # mapped[i]})

\* _layout_agent_plan(intent)
_layout_agent_plan(intent) ==
    CASE intent \in {"home", "product", "about"} -> <<"Hero", "Features", "Proof", "CTA", "Footer">>
      [] intent = "pricing" -> <<"Hero", "Pricing", "FAQ", "CTA", "Footer">>
      [] intent = "faq" -> <<"Hero", "FAQ", "CTA", "Footer">>
      [] intent = "contact" -> <<"Hero", "CTA", "Features", "Footer">>
      [] intent = "case_study" -> <<"Hero", "Proof", "Features", "CTA", "Footer">>
      [] intent = "support" -> <<"Hero", "Features", "FAQ", "CTA", "Footer">>
      [] OTHER -> <<"Hero", "Features", "Proof", "Pricing", "FAQ", "CTA", "Footer">>

\* _default_block_for(label); "" stands for None
_default_block_for(label, available_blocks) ==
    LET block == CASE label = "Hero" -> "HeroCentered.v1"
                   [] label = "Features" -> "FeatureGrid.v1"
                   [] label = "Proof" -> "LogoCloud.v1"
                   [] label = "Pricing" -> "PricingCards.v1"
                   [] label = "FAQ" -> "FAQAccordion.v1"
                   [] label = "CTA" -> "LeadCaptureCTA.v1"
                   [] label = "Footer" -> "Footer.v1"
                   [] label = "Section" -> "FeatureGrid.v1"
                   [] OTHER -> ""
    IN  IF block \in available_blocks THEN block ELSE ""

\* f"Auto {label}"
AutoSource(label) ==
    CASE label = "Hero" -> "Auto Hero"
      [] label = "Features" -> "Auto Features"
      [] label = "Proof" -> "Auto Proof"
      [] label = "Pricing" -> "Auto Pricing"
      [] label = "FAQ" -> "Auto FAQ"
      [] label = "CTA" -> "Auto CTA"
      [] label = "Footer" -> "Auto Footer"

\* _apply_layout_agent(sections, intent): the loop over the desired labels
RECURSIVE AgentOrder(_, _, _, _, _)
AgentOrder(desired, sections, used_idx, ordered, available_blocks) ==
    IF desired = <<>>
    THEN ordered \o SubSeqAt(sections, (1..Len(sections)) \ used_idx)
    ELSE LET label == Head(desired)
             group == {i \in (1..Len(sections)) \ used_idx :
                          _layout_schema_label(sections[i].type) = label}
             default_block == _default_block_for(label, available_blocks)
         IN  IF group # {}
             THEN AgentOrder(Tail(desired), sections, used_idx \cup group,
                             ordered \o SubSeqAt(sections, group), available_blocks)
             ELSE IF default_block # ""
                  THEN AgentOrder(Tail(desired), sections, used_idx,
                                  Append(ordered, Sec(default_block, AutoSource(label))),
                                  available_blocks)
                  ELSE AgentOrder(Tail(desired), sections, used_idx, ordered,
                                  available_blocks)

_apply_layout_agent(sections, intent, available_blocks) ==
    AgentOrder(_layout_agent_plan(intent), sections, {}, <<>>, available_blocks)

layout_order == <<"Hero", "Features", "Proof", "Pricing", "FAQ", "CTA", "Footer">>

\* layout_order.index(label) if label in layout_order else len(layout_order)
OrderKey(section) ==
    LET label == _layout_schema_label(section.type)
        at == {i \in 1..Len(layout_order) : layout_order[i] = label}
    IN  IF at = {} THEN Len(layout_order) + 1 ELSE CHOOSE i \in at : TRUE

\* sorted(sections, key=OrderKey): stable
RECURSIVE SortByLabel(_)
SortByLabel(sections) ==
    IF sections = <<>> THEN <<>>
    ELSE LET rest == SortByLabel(SubSeq(sections, 1, Len(sections) - 1))
             s == sections[Len(sections)]
             k == Cardinality({i \in 1..Len(rest) : OrderKey(rest[i]) <= OrderKey(s)})
         IN  SubSeq(rest, 1, k) \o <<s>> \o SubSeq(rest, k + 1, Len(rest))

\* the regroup branch: one pass per label, then the sections without one
Regrouped(sections) ==
    LET byKey(k) == SubSeqAt(sections, {i \in 1..Len(sections) : OrderKey(sections[i]) = k})
        F[k \in 0..(Len(layout_order) + 1)] ==
            IF k = 0 THEN <<>> ELSE F[k - 1] \o byKey(k)
    IN  F[Len(layout_order) + 1]

\* _repair_structure(sections, available_blocks, mode); mode is the set of
\* the "_"-separated parts of the mode string
_repair_structure(sections, available_blocks, mode) ==
    LET mode_parts == IF mode = {"full"}
                      THEN {"reorder", "insert", "replace", "regroup"} ELSE mode
        replaced == [i \in 1..Len(sections) |->
                        LET candidate == _select_block_type_from_text(
                                             sections[i].source, available_blocks)
                        IN  IF candidate # "" /\ candidate # sections[i].type
                            THEN Sec(candidate, sections[i].source)
                            ELSE sections[i]]
        s1 == IF "replace" \in mode_parts THEN replaced ELSE sections
        present == {_layout_schema_label(s1[i].type) : i \in 1..Len(s1)}
        required == <<"Hero", "Features", "CTA", "Footer">>
        missing == SelectSeq(required,
                       LAMBDA label : label \notin present
                                      /\ _default_block_for(label, available_blocks) # "")
        inserts == [i \in 1..Len(missing) |->
                       Sec(_default_block_for(missing[i], available_blocks),
                           AutoSource(missing[i]))]
        s2 == IF "insert" \in mode_parts THEN s1 \o inserts ELSE s1
    IN  IF mode = {"off"} THEN sections
        ELSE IF "reorder" \in mode_parts THEN SortByLabel(s2)
        ELSE IF "regroup" \in mode_parts THEN Regrouped(s2)
        ELSE s2

\* "_".join(m for m in mode_parts if m not in {"reorder", "regroup"}) or "off"
ModeNoReorder(mode) ==
    IF mode \ {"reorder", "regroup"} = {} THEN {"off"}
    ELSE mode \ {"reorder", "regroup"}

\* STRUCTURE_REPAIR_MODE
RepairModes == <<{"off"}, {"full"}>>

\* the words of " ".join([summary, markdown]).lower() that map_sections tests
TextBlobs == <<{}, {"pricing", "faq"}>>

\* plan["intent"]; "" stands for no plan
Intents == <<"", "pricing">>

\* map_sections up to the loop over mapped: the baseline mapping
BaselineMapping(cfg) ==
    LET available_blocks == cfg.available_blocks
        hero == IF cfg.section_titles # <<>>
                THEN <<Sec("HeroCentered.v1", cfg.section_titles[1])>>
                ELSE <<Sec("HeroCentered.v1", "Hero")>>
        headed == hero \o
                  (IF cfg.section_titles = <<>> THEN <<>>
                   ELSE HeadingSections(Tail(cfg.section_titles),
                                        cfg.has_capture_layout, available_blocks))
        texted == IF cfg.has_capture_layout THEN headed
                  ELSE headed \o TextSections(cfg.text_blob, available_blocks)
        deduped == Deduped(texted)
        repaired ==
            IF cfg.intent # "" /\ ~cfg.has_capture_layout
            THEN _repair_structure(
                     _apply_layout_agent(deduped, cfg.intent, available_blocks),
                     available_blocks, ModeNoReorder(cfg.repair_mode))
            ELSE IF cfg.has_capture_layout THEN deduped
            ELSE _repair_structure(deduped, available_blocks, cfg.repair_mode)
        \* len(section_boxes) is the number of captured titles
        boxes == IF cfg.has_capture_layout THEN Len(cfg.section_titles) ELSE 0
    IN  IF Len(repaired) < boxes
        THEN repaired \o [i \in 1..(boxes - Len(repaired)) |-> Sec("FeatureGrid.v1", "Section")]
        ELSE repaired

\* a captured page on which section titles repeat: four sections, the
\* first three under one title
RepeatedTitles == <<"Pricing", "Pricing", "Pricing", "Footer">>

RepeatedTitleConfigs ==
    {[has_capture_layout |-> TRUE, available_blocks |-> AvailableChoices[a],
      intent |-> "", repair_mode |-> {"off"}, high_fidelity |-> hf,
      text_blob |-> {}, section_titles |-> RepeatedTitles] :
        a \in 1..Len(AvailableChoices), hf \in BOOLEAN}

\* The page configurations: where the titles come from, the available
\* blocks, the plan's intent and the two environment switches.
MapConfigs ==
    RepeatedTitleConfigs \cup
    {cfg \in
        {[has_capture_layout |-> cap, available_blocks |-> AvailableChoices[a],
          intent |-> Intents[n], repair_mode |-> RepairModes[r], high_fidelity |-> hf,
          text_blob |-> TextBlobs[b], section_titles |-> t] :
            cap \in BOOLEAN, a \in 1..Len(AvailableChoices), n \in 1..Len(Intents),
            r \in 1..Len(RepairModes), hf \in BOOLEAN, b \in 1..Len(TextBlobs),
            t \in SeqsUpTo(Titles, MaxTitles)} :
        \* a capture layout has at least one section box
        cfg.has_capture_layout => cfg.section_titles # <<>>}

\* What the files of the page hold for one section index: the captured box
\* and content, the layout group, the atoms-DSL section, the semantic tags.
\* text: the phrases of the section text (Vocabulary of the classifier).
SectionContents ==
    <<[text |-> {}, textLen |-> 100, links |-> 0, top |-> 1000, height |-> 500,
       width |-> 1200, tag |-> "section", has_media |-> FALSE, has_points |-> FALSE,
       img_count |-> 0, card_count |-> 0, layout_type |-> ""],
      [text |-> {"privacy", "docs"}, textLen |-> 100, links |-> 9, top |-> 3000,
       height |-> 150, width |-> 1200, tag |-> "footer", has_media |-> FALSE,
       has_points |-> FALSE, img_count |-> 0, card_count |-> 0, layout_type |-> ""],
      [text |-> {"$99/mo", "monthly"}, textLen |-> 400, links |-> 0, top |-> 1000,
       height |-> 500, width |-> 1200, tag |-> "section", has_media |-> TRUE,
       has_points |-> FALSE, img_count |-> 2, card_count |-> 3, layout_type |-> "split-grid"]>>

NoAtoms ==
    [present |-> FALSE, has_price |-> FALSE, faq_word |-> FALSE, question_marks |-> 0,
     stat_matches |-> 0, step_count |-> 0, step_word |-> FALSE,
     testimonial_word |-> FALSE, quotes |-> 0, split |-> FALSE, grid_like |-> FALSE,
     images |-> 0, text |-> 0, headings |-> 0, links |-> 0, buttons |-> 0,
     semanticRole |-> "Section"]

EmptyAtoms == [NoAtoms EXCEPT !.present = TRUE]

\* a row of six logos under one heading
LogoCloudAtoms ==
    [EmptyAtoms EXCEPT !.images = 6, !.headings = 1, !.semanticRole = "LogoCloud"]

\* 3 headings, 4 text, 0 buttons, 0 links, 6 images, with the stats
\* build_atoms_dsl counts from these atoms
LogoScenarioAtoms ==
    [EmptyAtoms EXCEPT !.images = 6, !.headings = 3, !.text = 4, !.semanticRole = "Feature"]

\* the same section with stats that say headings = 1
LogoScenarioStats ==
    [EmptyAtoms EXCEPT !.images = 6, !.headings = 1, !.text = 4, !.semanticRole = "LogoCloud"]

\* atoms-DSL sections, by what the detectors of map.py read from them
AtomsChoices ==
    <<NoAtoms,
      [EmptyAtoms EXCEPT !.has_price = TRUE, !.buttons = 1, !.headings = 1,
                         !.semanticRole = "Pricing"],
      [EmptyAtoms EXCEPT !.has_price = TRUE],
      [EmptyAtoms EXCEPT !.split = TRUE],
      [EmptyAtoms EXCEPT !.images = 3, !.headings = 3, !.text = 3,
                         !.semanticRole = "Feature"],
      LogoCloudAtoms,
      LogoScenarioAtoms,
      LogoScenarioStats>>

NoSemantic == [present |-> FALSE, semanticRole |-> "", split |-> FALSE]

\* semantic.json entries: semanticRole, and whether layoutPattern has "split"
SemanticChoices ==
    <<NoSemantic,
      [present |-> TRUE, semanticRole |-> "Pricing", split |-> FALSE],
      [present |-> TRUE, semanticRole |-> "Hero", split |-> FALSE],
      [present |-> TRUE, semanticRole |-> "Footer", split |-> FALSE],
      [present |-> TRUE, semanticRole |-> "Section", split |-> TRUE]>>

\* _atoms_pricing_candidate .. _atoms_feature_candidate: <<ok, int(score * 100)>>
_atoms_pricing_candidate(a) ==
    IF a.has_price /\ a.buttons + a.links >= 1 /\ a.headings >= 1 THEN <<TRUE, 85>>
    ELSE IF a.has_price THEN <<TRUE, 65>>
    ELSE <<FALSE, 0>>

_atoms_faq_candidate(a) ==
    IF a.faq_word THEN <<TRUE, 85>>
    ELSE IF a.question_marks >= 2 THEN <<TRUE, 70>>
    ELSE <<FALSE, 0>>

_atoms_stats_candidate(a) ==
    IF a.stat_matches >= 3 THEN <<TRUE, 80>>
    ELSE IF a.stat_matches = 2 THEN <<TRUE, 60>>
    ELSE <<FALSE, 0>>

_atoms_steps_candidate(a) ==
    IF a.step_count >= 3 \/ a.step_word THEN <<TRUE, 75>> ELSE <<FALSE, 0>>

_atoms_logo_candidate(a) ==
    IF a.images >= 6 /\ a.text <= 2 /\ a.headings <= 1 /\ a.links <= 3 /\ a.buttons = 0
    THEN <<TRUE, 85>>
    ELSE IF a.images >= 5 /\ a.text <= 4 /\ a.headings <= 2 /\ a.links <= 4
    THEN <<TRUE, 65>>
    ELSE <<FALSE, 0>>

_atoms_testimonials_candidate(a) ==
    IF a.images >= 2 /\ a.testimonial_word THEN <<TRUE, 75>>
    ELSE IF a.images >= 2 /\ a.quotes >= 2 THEN <<TRUE, 65>>
    ELSE <<FALSE, 0>>

_atoms_cards_candidate(a) ==
    LET link_count == a.links + a.buttons
        logo_like == a.images >= 6 /\ a.headings <= 1 /\ a.text <= 1 /\ link_count <= 2
        base_signal == \/ (a.images >= 3 /\ link_count + a.text + a.headings >= 3)
                       \/ (a.images >= 4 /\ a.headings >= 2)
        score == IF base_signal /\ a.grid_like THEN 90
                 ELSE IF base_signal THEN 60
                 ELSE IF a.images >= 6 /\ a.text <= 6 THEN 55
                 ELSE 0
    IN  IF logo_like THEN <<FALSE, 30>> ELSE <<score >= 60, score>>

_atoms_feature_candidate(a) ==
    IF a.headings >= 3 /\ a.text >= 3 /\ a.images >= 1 THEN <<TRUE, 60>>
    ELSE IF a.headings >= 3 /\ a.text >= 4 THEN <<TRUE, 55>>
    ELSE <<FALSE, 0>>

Suggestion(type, score, family) == [type |-> type, score |-> score, family |-> family]

\* variant that asks the FAQ detector before the pricing detector
_suggest_block_faq_first(a) ==
    IF _atoms_faq_candidate(a)[1]
    THEN Suggestion("FAQAccordion.v1", _atoms_faq_candidate(a)[2], "FAQ")
    ELSE IF _atoms_pricing_candidate(a)[1]
    THEN Suggestion("PricingCards.v1", _atoms_pricing_candidate(a)[2], "Pricing")
    ELSE IF _atoms_stats_candidate(a)[1]
    THEN Suggestion("StatsKPI.v1", _atoms_stats_candidate(a)[2], "Feature")
    ELSE IF _atoms_steps_candidate(a)[1]
    THEN Suggestion("StepsTimeline.v1", _atoms_steps_candidate(a)[2], "Feature")
    ELSE IF _atoms_logo_candidate(a)[1]
    THEN Suggestion("LogoCloud.v1", _atoms_logo_candidate(a)[2], "Proof")
    ELSE IF _atoms_testimonials_candidate(a)[1]
    THEN Suggestion("TestimonialsGrid.v1", _atoms_testimonials_candidate(a)[2], "Proof")
    ELSE IF a.split
    THEN Suggestion("FeatureWithMedia.v1", 85, "Feature")
    ELSE IF _atoms_cards_candidate(a)[1]
    THEN Suggestion("CardsGrid.v1", _atoms_cards_candidate(a)[2], "Feature")
    ELSE IF _atoms_feature_candidate(a)[1]
    THEN Suggestion("FeatureGrid.v1", _atoms_feature_candidate(a)[2], "Feature")
    ELSE Suggestion("", 0, "")

\* _suggest_block_from_atoms(atoms_section); type "" stands for None
_suggest_block_from_atoms(a) ==
    IF _atoms_pricing_candidate(a)[1]
    THEN Suggestion("PricingCards.v1", _atoms_pricing_candidate(a)[2], "Pricing")
    ELSE IF _atoms_faq_candidate(a)[1]
    THEN Suggestion("FAQAccordion.v1", _atoms_faq_candidate(a)[2], "FAQ")
    ELSE IF _atoms_stats_candidate(a)[1]
    THEN Suggestion("StatsKPI.v1", _atoms_stats_candidate(a)[2], "Feature")
    ELSE IF _atoms_steps_candidate(a)[1]
    THEN Suggestion("StepsTimeline.v1", _atoms_steps_candidate(a)[2], "Feature")
    ELSE IF _atoms_logo_candidate(a)[1]
    THEN Suggestion("LogoCloud.v1", _atoms_logo_candidate(a)[2], "Proof")
    ELSE IF _atoms_testimonials_candidate(a)[1]
    THEN Suggestion("TestimonialsGrid.v1", _atoms_testimonials_candidate(a)[2], "Proof")
    ELSE IF a.split
    THEN Suggestion("FeatureWithMedia.v1", 85, "Feature")
    ELSE IF _atoms_cards_candidate(a)[1]
    THEN Suggestion("CardsGrid.v1", _atoms_cards_candidate(a)[2], "Feature")
    ELSE IF _atoms_feature_candidate(a)[1]
    THEN Suggestion("FeatureGrid.v1", _atoms_feature_candidate(a)[2], "Feature")
    ELSE Suggestion("", 0, "")

\* _semantic_role_to_block(role); "" stands for None
_semantic_role_to_block(role) ==
    CASE role = "Hero" -> "HeroCentered.v1"
      [] role = "Feature" -> "FeatureGrid.v1"
      [] role = "Pricing" -> "PricingCards.v1"
      [] role = "FAQ" -> "FAQAccordion.v1"
      [] role = "Testimonials" -> "TestimonialsGrid.v1"
      [] role = "LogoCloud" -> "LogoCloud.v1"
      [] role = "CTA" -> "LeadCaptureCTA.v1"
      [] role = "CaseStudies" -> "CaseStudies.v1"
      [] role = "Footer" -> "Footer.v1"
      [] OTHER -> ""

\* the skeleton types the classifier, layout and semantic steps test for
SkeletonTypes == {"Footer.v1", "Navbar.v1", "AnnouncementBar.v1"}

\* variant of the atom step's protected set without the skeleton types
AtomProtectedCtaOnly(index) ==
    {"LeadCaptureCTA.v1"} \cup (IF index = 0 THEN {"HeroCentered.v1"} ELSE {})

\* the protected set of the atom step
AtomProtected(index) ==
    {"Footer.v1", "Navbar.v1", "AnnouncementBar.v1", "LeadCaptureCTA.v1"}
    \cup (IF index = 0 THEN {"HeroCentered.v1"} ELSE {})

\* the phrases of str(section["source"]).lower() that the classifier reads
SourcePhrases(source) ==
    CASE source \in {"Intelligent platform", "Intelligent platform - cards"} -> {"platform"}
      [] source \in {"FAQ", "Auto FAQ"} -> {"faq"}
      [] source = "Testimonials" -> {"testimonial"}
      [] source \in {"Pricing", "Auto Pricing"} -> {"pricing"}
      [] source \in {"Footer", "Auto Footer"} -> {"footer"}
      [] source \in {"Hero", "Auto Hero"} -> {"hero"}
      [] source = "Auto Features" -> {"feature"}
      [] OTHER -> {}

\* layout = section_boxes[index] if index < len(section_boxes) else {}
LayoutOf(cfg, index, content) ==
    IF cfg.has_capture_layout /\ index < Len(cfg.section_titles)
    THEN [top |-> content.top, height |-> content.height, width |-> content.width,
          tag |-> content.tag]
    ELSE [top |-> 0, height |-> 0, width |-> 0, tag |-> ""]

\* combined_text: the source, the section text and the layout hints
CombinedText(cfg, source, index, content) ==
    SourcePhrases(source) \cup content.text
        \cup (IF LayoutOf(cfg, index, content).tag = "footer" THEN {"footer"} ELSE {})

\* the tags of _infer_intent_tags whose keywords a phrase of the text contains
TagsOfPhrase(tok) ==
    CASE tok = "pricing" -> {"pricing"}
      [] tok = "faq" -> {"faq"}
      [] tok \in {"testimonial", "case study"} -> {"trust"}
      [] tok \in {"get started", "contact us"} -> {"conversion"}
      [] tok \in {"feature", "use case"} -> {"feature_explain"}
      [] tok = "hero" -> {"product_story"}
      [] tok = "docs" -> {"support"}
      [] OTHER -> {}

\* the tags whose keywords the lower-cased block type contains
TagsOfType(block_type) ==
    CASE block_type \in {"PricingCards.v1", "PlanComparison.v1"} -> {"pricing"}
      [] block_type = "FAQAccordion.v1" -> {"faq"}
      [] block_type \in {"LogoCloud.v1", "TestimonialsGrid.v1"} -> {"trust"}
      [] block_type \in {"ContactSection.v1", "LeadCaptureCTA.v1"} -> {"conversion"}
      [] block_type \in {"FeatureGrid.v1", "FeatureWithMedia.v1"} -> {"feature_explain"}
      [] block_type \in {"HeroCentered.v1", "HeroSplit.v1"} -> {"product_story"}
      [] block_type = "SupportLinks.v1" -> {"support"}
      [] OTHER -> {}

\* _infer_intent_tags(text, block_type, hints), as a set
_infer_intent_tags(text, block_type) ==
    LET tags == UNION {TagsOfPhrase(tok) : tok \in text} \cup TagsOfType(block_type)
    IN  IF tags = {} THEN {"general"} ELSE tags

\* intent_tags of the loop body: _infer_intent_tags(section_text or
\* combined_text, section["type"], hints) and the tags of the semantic role
IntentTags(cfg, type, source, index, content, atoms_section, semantic) ==
    LET text == IF content.text # {} THEN content.text
                ELSE CombinedText(cfg, source, index, content)
        role == IF ~atoms_section.present THEN ""
                ELSE IF semantic.present /\ semantic.semanticRole # ""
                     THEN semantic.semanticRole
                     ELSE atoms_section.semanticRole
    IN  _infer_intent_tags(text, type)
        \cup (IF role = "Pricing" THEN {"pricing"} ELSE {})
        \cup (IF role = "FAQ" THEN {"faq"} ELSE {})
        \cup (IF role = "Testimonials" THEN {"trust"} ELSE {})
        \cup (IF role = "CTA" THEN {"conversion"} ELSE {})

\* _layout_schema_label(block_type, intent_tags)
LayoutSchemaLabel(block_type, intent_tags) ==
    IF _layout_schema_label(block_type) # "Section" THEN _layout_schema_label(block_type)
    ELSE IF "trust" \in intent_tags THEN "Proof"
    ELSE IF "conversion" \in intent_tags THEN "CTA"
    ELSE "Section"

\* the (section, context) argument of classify_section
ClassifierInput(cfg, source, index, total, content) ==
    LET layout == LayoutOf(cfg, index, content) IN
    [text |-> CombinedText(cfg, source, index, content),
     textLen |-> content.textLen,
     links |-> content.links,
     layoutTop |-> layout.top,
     layoutHeight |-> layout.height,
     viewportHeight |-> DefaultViewportHeight,
     index |-> index,
     total |-> total,
     flags |-> (IF layout.width > 600 THEN {"grid_like"} ELSE {})
               \cup (IF layout.width > 900 THEN {"two_column_like"} ELSE {})
               \cup (IF Len(cfg.section_titles) > 4 THEN {"repeat_items"} ELSE {})
               \cup (IF content.has_media THEN {"has_media"} ELSE {})
               \cup (IF content.has_points THEN {"has_points"} ELSE {})
               \cup (IF index = 1 THEN {"near_hero"} ELSE {})
               \cup (IF index = 0 /\ cfg.section_titles # <<>> THEN {"has_h1"} ELSE {})
               \cup (IF layout.tag = "footer" THEN {"has_footer_tag"} ELSE {}),
     imgCount |-> content.img_count,
     cardCount |-> content.card_count]

\* the HIGH_FIDELITY layout_type step
LayoutTypeStep(cfg, type, index, content) ==
    LET available_blocks == cfg.available_blocks
        t1 == IF content.layout_type \in {"split", "split-grid"} /\ type \notin SkeletonTypes
              THEN IF index = 0 /\ "HeroSplit.v1" \in available_blocks THEN "HeroSplit.v1"
                   ELSE IF "FeatureWithMedia.v1" \in available_blocks
                        THEN "FeatureWithMedia.v1"
                        ELSE type
              ELSE type
        t2 == IF /\ content.layout_type \in {"grid", "split-grid"}
                 /\ "CardsGrid.v1" \in available_blocks
                 /\ t1 \notin SkeletonTypes
                 /\ content.card_count >= 3
              THEN "CardsGrid.v1"
              ELSE t1
    IN  IF cfg.high_fidelity /\ content.layout_type # "" THEN t2 ELSE type

\* variant of the threshold without the 10 points of margin
OverrideThresholdNoMargin(initial_score) == Max2(initial_score, 60)

\* threshold = max(initial_score + 10, 60)
OverrideThreshold(initial_score) == Max2(initial_score + 10, 60)

\* the classifier step's decision, given classify_section's result:
\* [type, candidates, family]
ClassifierDecision(cfg, initial_type, source, classification) ==
    LET available_blocks == cfg.available_blocks
        force_footer == source = "Footer"   \* source.strip().lower() == "footer"
        candidates == classification.candidates
        top_type == candidates[1].type
        top_score == candidates[1].score
        own == {i \in 1..Len(candidates) : candidates[i].type = initial_type}
        initial_score == IF own = {} THEN 0
                         ELSE candidates[CHOOSE i \in own : \A j \in own : i <= j].score
        threshold == OverrideThreshold(initial_score)
    IN  IF "Footer.v1" \in available_blocks /\ force_footer
        THEN [type |-> "Footer.v1",
              candidates |-> <<[type |-> "Footer.v1", score |-> 100,
                                reasons |-> << <<"footer_tag", 100>> >>,
                                family |-> "Skeleton"]>>,
              family |-> "Skeleton"]
        ELSE [type |-> IF candidates # <<>> /\ top_type \in available_blocks
                       THEN IF initial_type \notin SkeletonTypes
                            THEN IF top_type # initial_type /\ top_score >= threshold
                                 THEN top_type
                                 ELSE initial_type
                            ELSE top_type
                       ELSE initial_type,
              candidates |-> candidates,
              family |-> classification.family]

\* the classifier step: [type, candidates, family]
ClassifierStep(cfg, initial_type, source, index, total, content) ==
    ClassifierDecision(cfg, initial_type, source,
        classify_section(ClassifierInput(cfg, source, index, total, content)))

\* variant of the confidence test with a minimum of 0.6
ConfidentSuggestionAt60(score) == score >= 60

\* int(s_score * 100) >= 80
ConfidentSuggestion(score) == score >= 80

\* the atom-rule step: [type, candidates]
AtomStep(cfg, current_type, candidates, source, index, atoms_section) ==
    LET suggestion == _suggest_block_from_atoms(atoms_section)
        top == [type |-> suggestion.type, score |-> suggestion.score,
                reasons |-> << <<"atoms_rule", suggestion.score>> >>,
                family |-> suggestion.family]
        should_override == /\ suggestion.type # current_type
                           /\ current_type \notin AtomProtected(index)
                           /\ ConfidentSuggestion(suggestion.score)
        is_split_cards == /\ current_type = "CardsGrid.v1"
                          /\ source = "Intelligent platform - cards" \* " - " in source
    IN  IF /\ atoms_section.present
           /\ suggestion.type # ""
           /\ suggestion.type \in cfg.available_blocks
        THEN [type |-> IF should_override /\ ~is_split_cards
                       THEN suggestion.type ELSE current_type,
              candidates |-> <<top>> \o
                  Take(SelectSeq(candidates, LAMBDA c : c.type # suggestion.type), 4)]
        ELSE [type |-> current_type, candidates |-> candidates]

\* the semantic override step: the type it leaves
SemanticStep(cfg, current_type, index, semantic) ==
    LET role == semantic.semanticRole
        role_block == _semantic_role_to_block(role)
        t1 == IF /\ role_block # ""
                 /\ role_block \in cfg.available_blocks
                 /\ current_type \notin SkeletonTypes
                 /\ ~(role = "Hero" /\ index # 0)
              THEN role_block
              ELSE current_type
        t2 == IF /\ semantic.split
                 /\ "FeatureWithMedia.v1" \in cfg.available_blocks
                 /\ t1 \notin SkeletonTypes
                 /\ cfg.high_fidelity
              THEN "FeatureWithMedia.v1"
              ELSE t1
    IN  IF semantic.present THEN t2 ELSE current_type

\* the loop body for mapped[index] after the classifier step, up to
\* section["family"] = ..
SectionAfterClassifier(cfg, section, index, entry, classified, content, atoms_section, semantic) ==
    LET atomized == AtomStep(cfg, classified.type, classified.candidates,
                             section.source, index, atoms_section)
        intent_tags == IntentTags(cfg, entry, section.source, index, content,
                                  atoms_section, semantic)
    IN  [index |-> index,
         source |-> section.source,
         type |-> SemanticStep(cfg, atomized.type, index, semantic),
         \* layout_label is computed before the classifier step
         intent_tags |-> intent_tags,
         layout_schema |-> LayoutSchemaLabel(entry, intent_tags),
         \* section_boxes[index] and capture_payloads[index], by their index
         box |-> IF cfg.has_capture_layout /\ index < Len(cfg.section_titles)
                 THEN index ELSE -1,
         candidates |-> atomized.candidates,
         family |-> classified.family,
         \* the type when the loop body starts and after each of its steps
         initial_type |-> section.type,
         type_before_classifier |-> entry,
         type_after_classifier |-> classified.type,
         type_after_atoms |-> atomized.type,
         classifier_candidates |-> classified.candidates,
         \* what the page's files held for this index
         content |-> content,
         atoms |-> atoms_section,
         suggestion |-> IF atoms_section.present
                        THEN _suggest_block_from_atoms(atoms_section)
                        ELSE Suggestion("", 0, ""),
         semantic |-> semantic]

\* the loop body for mapped[index] after the layout_type step
SectionAfterLayoutType(cfg, section, index, total, entry, content, atoms_section, semantic) ==
    SectionAfterClassifier(cfg, section, index, entry,
        ClassifierStep(cfg, entry, section.source, index, total, content),
        content, atoms_section, semantic)

\* one pass of the loop body for mapped[index], up to section["family"] = ..
MappedSection(cfg, mapped, index, content, atoms_section, semantic) ==
    SectionAfterLayoutType(cfg, mapped[index + 1], index, Len(mapped),
        LayoutTypeStep(cfg, mapped[index + 1].type, index, content),
        content, atoms_section, semantic)

InitMap ==
    /\ mapCfg \in MapConfigs
    /\ mapMapped = <<>>
    /\ mapIndex = 0
    /\ mapSection = NoSection
    /\ mapStage = "baseline"
    /\ MapAlone

\* map_sections from its entry to the start of the loop over mapped
BuildMapped ==
    /\ mapStage = "baseline"
    /\ mapMapped' = BaselineMapping(mapCfg)
    /\ mapIndex' = 0
    /\ mapStage' = "loop"
    /\ UNCHANGED <<mapCfg, mapSection>>
    /\ UNCHANGED mapOthers

\* the loop body for mapped[mapIndex] up to the assignment of candidates and family
MapSection ==
    /\ mapStage = "loop"
    /\ mapIndex < Len(mapMapped)
    /\ \E c \in 1..Len(SectionContents), a \in 1..Len(AtomsChoices),
          s \in 1..Len(SemanticChoices) :
            mapSection' = MappedSection(mapCfg, mapMapped, mapIndex, SectionContents[c],
                                        AtomsChoices[a], SemanticChoices[s])
    /\ mapStage' = "section"
    /\ UNCHANGED <<mapCfg, mapMapped, mapIndex>>
    /\ UNCHANGED mapOthers

\* the rest of the loop body: the block is built and appended
AppendBlock ==
    /\ mapStage = "section"
    /\ mapSection' = NoSection
    /\ mapIndex' = mapIndex + 1
    /\ mapStage' = "loop"
    /\ UNCHANGED <<mapCfg, mapMapped>>
    /\ UNCHANGED mapOthers

\* the block map_sections puts in front of the sections when nav_props is set
NavBlock ==
    [index |-> 0, type |-> "Navbar.v1", source |-> "Navbar", family |-> "Skeleton",
     intent_tags |-> {"navigation"}, layout_schema |-> "Navbar"]

\* the loop is over and nav_props is set (the page has a navigation hint
\* and Navbar.v1 is available): the Navbar block is built
InsertNavbar ==
    /\ mapStage = "loop"
    /\ mapIndex >= Len(mapMapped)
    /\ "Navbar.v1" \in mapCfg.available_blocks
    /\ mapSection' = NavBlock
    /\ mapStage' = "navbar"
    /\ UNCHANGED <<mapCfg, mapMapped, mapIndex>>
    /\ UNCHANGED mapOthers

\* sections.json is written, with the Navbar block or without one
WriteSections ==
    /\ \/ mapStage = "loop" /\ mapIndex >= Len(mapMapped)
       \/ mapStage = "navbar"
    /\ mapStage' = "done"
    /\ UNCHANGED <<mapCfg, mapMapped, mapIndex, mapSection>>
    /\ UNCHANGED mapOthers

NextMap ==
    \/ BuildMapped
    \/ MapSection
    \/ AppendBlock
    \/ InsertNavbar
    \/ WriteSections

SpecMap == InitMap /\ [][NextMap]_vars

(***************************************************************************)
(* Page pipeline on captured payloads: capture.py (section groups, atoms   *)
(* payload, computed style counts), atoms_dsl.py (build_atoms_dsl) and     *)
(* map.py (section titles of map_sections), in the order run.py calls them *)
(***************************************************************************)
MaxPayloads == 2

\* Python values as they come out of the page and of json.loads: None is
\* [k |-> "none"]; a dict is a record with k = "dict" and one field per key.
PyStr(s) == [k |-> "str", s |-> s]

PyInt(n) == [k |-> "int", n |-> n]

PyList(elems) == [k |-> "list", elems |-> elems]

EmptyDict == [k |-> "dict"]

IsDict(v) == v.k = "dict"

IsList(v) == v.k = "list"

IsStr(v) == v.k = "str"

Keys(d) == DOMAIN d \ {"k"}

\* bool(v)
Truthy(v) ==
    CASE v.k = "none" -> FALSE
      [] v.k = "str" -> v.s # ""
      [] v.k = "int" -> v.n # 0
      [] v.k = "list" -> v.elems # <<>>
      [] OTHER -> Keys(v) # {}

\* d.get(key) and d.get(key, default) of a dict d
Get(d, key) == IF key \in Keys(d) THEN d[key] ELSE None

GetOr(d, key, default) == IF key \in Keys(d) THEN d[key] ELSE default

\* v or default
OrElse(v, default) == IF Truthy(v) THEN v ELSE default

\* float(v); the strings of the model are not numerals
FloatOf(v) ==
    CASE v.k = "int" -> Ok(v.n)
      [] v.k = "str" -> Raise("ValueError")
      [] OTHER -> Raise("TypeError")

\* str(v or "").lower(); the strings of the model are in lower case
LowerStr(v) ==
    IF ~Truthy(v) THEN ""
    ELSE IF IsStr(v) THEN v.s
    ELSE "<repr>"

\* s.strip() on the strings of the model
Strip(s) == IF s = "  " THEN "" ELSE s

\* the outcome of a loop over outcomes: the first exception, or all values
FirstRaised(outs) ==
    LET bad == {i \in 1..Len(outs) : outs[i].exc # "none"}
    IN  IF bad = {} THEN Ok([i \in 1..Len(outs) |-> outs[i].val])
        ELSE Raise(outs[CHOOSE i \in bad : \A j \in bad : i <= j].exc)

SeqMin(s) == CHOOSE x \in Range(s) : \A y \in Range(s) : x <= y

SeqMax(s) == CHOOSE x \in Range(s) : \A y \in Range(s) : x >= y

\* one node of the loop of _infer_layout_type: <<kept, 2 * (x + w / 2),
\* 2 * (y + h / 2)>>; kept is FALSE where the loop says continue
NodeCenter(node) ==
    LET bbox == OrElse(Get(node, "bbox"), EmptyDict)
        fl(key) == IF IsDict(bbox) THEN FloatOf(GetOr(bbox, key, PyInt(0)))
                   ELSE Raise("AttributeError")
    IN  IF ~IsDict(node) THEN <<FALSE, 0, 0>>
        ELSE IF \E key \in {"x", "y", "w", "h"} : fl(key).exc # "none"
        THEN <<FALSE, 0, 0>>
        ELSE IF fl("w").val <= 0 \/ fl("h").val <= 0 THEN <<FALSE, 0, 0>>
        ELSE <<TRUE, 2 * fl("x").val + fl("w").val, 2 * fl("y").val + fl("h").val>>

\* _infer_layout_type(payload), payload a dict
_infer_layout_type(payload) ==
    LET computed == OrElse(Get(payload, "computed_styles"), EmptyDict)
        nodes == IF IsDict(computed) THEN Get(computed, "nodes") ELSE PyList(<<>>)
        centers == SelectSeq([i \in 1..Len(nodes.elems) |-> NodeCenter(nodes.elems[i])],
                             LAMBDA c : c[1])
        xs == [i \in 1..Len(centers) |-> centers[i][2]]
        ys == [i \in 1..Len(centers) |-> centers[i][3]]
        min_x == SeqMin(xs)
        span_x == SeqMax(xs) - min_x
        \* x < min_x + span_x * 0.5, on the doubled centres
        left == {i \in 1..Len(xs) : 2 * xs[i] < 2 * min_x + span_x}
        right == (1..Len(xs)) \ left
        unique_cols == Cardinality({RoundHalfEven(xs[i], 160) : i \in 1..Len(xs)})
        unique_rows == Cardinality({RoundHalfEven(ys[i], 160) : i \in 1..Len(xs)})
        center_bins == Cardinality({<<RoundHalfEven(xs[i], 60), RoundHalfEven(ys[i], 60)>> :
                                       i \in 1..Len(xs)})
    IN  IF ~IsList(nodes) THEN "stack"
        ELSE IF Len(nodes.elems) < 3 THEN "stack"
        ELSE IF xs = <<>> THEN "stack"
        ELSE IF span_x <= 0 THEN "stack"
        ELSE IF left # {} /\ right # {} /\ Len(xs) >= 6 THEN "split"
        ELSE IF Len(xs) >= 6 /\ unique_cols >= 2 /\ unique_rows >= 2 THEN "grid"
        ELSE IF Len(xs) >= 6 /\ 2 * center_bins < Len(xs) THEN "overlap"
        ELSE "stack"

\* _interaction_hotspots(payload), payload a dict: the (tag, role) of the hotspots
_interaction_hotspots(payload) ==
    LET computed == OrElse(Get(payload, "computed_styles"), EmptyDict)
        nodes == IF IsDict(computed) THEN Get(computed, "nodes") ELSE PyList(<<>>)
        list == IF IsList(nodes) THEN nodes.elems ELSE <<>>
        hot(node) == /\ IsDict(node)
                     /\ \/ LowerStr(Get(node, "tag")) \in {"a", "button"}
                        \/ LowerStr(Get(node, "role")) = "button"
                     /\ IsDict(OrElse(Get(node, "bbox"), EmptyDict))
        kept == SelectSeq(list, hot)
    IN  [i \in 1..Len(kept) |->
            [tag |-> LowerStr(Get(kept[i], "tag")), role |-> LowerStr(Get(kept[i], "role"))]]

\* float(section.get(key, 0) or 0) of a section box
BoxFloat(box, key) ==
    IF ~IsDict(box) THEN Raise("AttributeError")
    ELSE FloatOf(OrElse(GetOr(box, key, PyInt(0)), PyInt(0)))

\* sorted(enumerate(sections), key=top): the positions of order, stable
RECURSIVE SortByTop(_, _)
SortByTop(n, tops) ==
    IF n = 0 THEN <<>>
    ELSE LET rest == SortByTop(n - 1, tops)
             at == Cardinality({j \in 1..Len(rest) : tops[rest[j]] <= tops[n]})
         IN  SubSeq(rest, 1, at) \o <<n>> \o SubSeq(rest, at + 1, Len(rest))

\* variant of the grouping loop that closes a group and goes on filling it
RECURSIVE GroupLoopKeepingGroup(_, _, _, _, _, _, _)
GroupLoopKeepingGroup(order, tops, heights, pos, groups, current_group, last) ==
    IF pos > Len(order)
    THEN IF current_group # <<>> THEN Append(groups, current_group) ELSE groups
    ELSE LET i == order[pos]
             gap == last[1] /\ tops[i] - last[2] > 140
         IN  GroupLoopKeepingGroup(order, tops, heights, pos + 1,
                 IF gap /\ current_group # <<>>
                 THEN Append(groups, current_group) ELSE groups,
                 Append(current_group, i - 1),
                 <<TRUE, Max2(IF last[1] THEN last[2] ELSE 0, tops[i] + heights[i])>>)

\* the grouping loop over sorted_sections; last is <<last_bottom is not None,
\* last_bottom>>; the groups hold the 0-based indices
RECURSIVE GroupLoop(_, _, _, _, _, _, _)
GroupLoop(order, tops, heights, pos, groups, current_group, last) ==
    IF pos > Len(order)
    THEN IF current_group # <<>> THEN Append(groups, current_group) ELSE groups
    ELSE LET i == order[pos]
             gap == last[1] /\ tops[i] - last[2] > 140
         IN  GroupLoop(order, tops, heights, pos + 1,
                       IF gap /\ current_group # <<>>
                       THEN Append(groups, current_group) ELSE groups,
                       Append(IF gap THEN <<>> ELSE current_group, i - 1),
                       <<TRUE, Max2(IF last[1] THEN last[2] ELSE 0, tops[i] + heights[i])>>)

\* one entry of group_items
GroupItem(idx, payload) ==
    [index |-> idx,
     title |-> IF IsDict(payload) THEN Get(payload, "title") ELSE PyStr(""),
     layout_type |-> IF IsDict(payload) THEN _infer_layout_type(payload) ELSE "stack",
     interaction_hotspots |-> IF IsDict(payload) THEN _interaction_hotspots(payload)
                              ELSE <<>>]

\* one entry of atoms_payload, for a dict payload
AtomsPayloadEntry(idx, payload) ==
    LET computed_styles == GetOr(payload, "computed_styles", EmptyDict)
    IN  IF ~IsDict(computed_styles) THEN Raise("AttributeError")
        ELSE Ok([k |-> "dict",
                 index |-> PyInt(idx),
                 title |-> OrElse(Get(payload, "title"), PyStr("")),
                 atoms |-> OrElse(Get(payload, "atoms"), PyList(<<>>)),
                 computed_styles |-> GetOr(computed_styles, "summary", EmptyDict)])

\* the summary keys the counts are taken from, in the order of the calls
StyleKeys == <<"fonts", "textColors", "bgColors", "radius", "fontSizes", "padding", "margin">>

\* the entries of one list that add_counts adds to its bucket
CountedEntries(entries) ==
    IF ~IsList(entries) THEN <<>>
    ELSE SelectSeq(entries.elems,
                   LAMBDA entry : /\ IsDict(entry)
                                  /\ Truthy(Get(entry, "value"))
                                  /\ OrElse(Get(entry, "count"), PyInt(0)).k = "int")

\* the add_counts calls for one payload: the counted entries per key
PayloadCounts(payload) ==
    LET computed == OrElse(Get(payload, "computed_styles"), EmptyDict)
        summary == OrElse(Get(computed, "summary"), EmptyDict)
        counted == [i \in 1..Len(StyleKeys) |-> CountedEntries(Get(summary, StyleKeys[i]))]
        \* bucket[value] with a list or a dict as value
        unhashable == \E i \in 1..Len(StyleKeys) : \E j \in 1..Len(counted[i]) :
                          counted[i][j].value.k \in {"list", "dict"}
    IN  IF ~IsDict(payload) THEN Ok([i \in 1..Len(StyleKeys) |-> <<>>])
        ELSE IF ~IsDict(computed) THEN Raise("AttributeError")
        ELSE IF ~IsDict(summary) THEN Raise("AttributeError")
        ELSE IF unhashable THEN Raise("TypeError")
        ELSE Ok(counted)

RECURSIVE SumCounts(_, _)
SumCounts(entries, value) ==
    IF entries = <<>> THEN 0
    ELSE (IF Head(entries).value = value
          THEN OrElse(Get(Head(entries), "count"), PyInt(0)).n ELSE 0)
         + SumCounts(Tail(entries), value)

RECURSIVE Concat(_)
Concat(seqs) == IF seqs = <<>> THEN <<>> ELSE Head(seqs) \o Concat(Tail(seqs))

\* the bucket of one key after the loop over the payloads
Bucket(counts, key) ==
    LET entries == Concat([p \in 1..Len(counts) |-> counts[p][key]])
    IN  [value \in {entries[i].value : i \in 1..Len(entries)} |-> SumCounts(entries, value)]

NoCapture == [groups |-> <<>>, atoms |-> <<>>, computed |-> <<>>]

\* capture_site from the grouping of the sections to the computed_* samples
capture_sections(page) ==
    LET n == Len(page)
        sort_keys == FirstRaised([i \in 1..n |-> BoxFloat(page[i].box, "top")])
        tops == sort_keys.val
        order == SortByTop(n, tops)
        loop_heights == FirstRaised([j \in 1..n |-> BoxFloat(page[order[j]].box, "height")])
        heights == [i \in 1..n |->
                       loop_heights.val[CHOOSE j \in 1..n : order[j] = i]]
        groups_payload == GroupLoop(order, tops, heights, 1, <<>>, <<>>, <<FALSE, 0>>)
        enriched_groups ==
            [g \in 1..Len(groups_payload) |->
                [indices |-> groups_payload[g],
                 sections |-> [j \in 1..Len(groups_payload[g]) |->
                                  GroupItem(groups_payload[g][j],
                                            page[groups_payload[g][j] + 1].payload)]]]
        dicts == SelectSeq([i \in 1..n |-> i], LAMBDA i : IsDict(page[i].payload))
        atoms_payload == FirstRaised([j \in 1..Len(dicts) |->
                                         AtomsPayloadEntry(dicts[j] - 1, page[dicts[j]].payload)])
        counts == FirstRaised([i \in 1..n |-> PayloadCounts(page[i].payload)])
    IN  IF sort_keys.exc # "none" THEN Raise(sort_keys.exc)
        ELSE IF loop_heights.exc # "none" THEN Raise(loop_heights.exc)
        ELSE IF atoms_payload.exc # "none" THEN Raise(atoms_payload.exc)
        ELSE IF counts.exc # "none" THEN Raise(counts.exc)
        ELSE Ok([groups |-> enriched_groups,
                 atoms |-> atoms_payload.val,
                 computed |-> [i \in 1..Len(StyleKeys) |-> Bucket(counts.val, i)]])

\* v[:160]; the strings and lists of the model are shorter than 160
Slice160(v) ==
    IF v.k \in {"str", "list"} THEN Ok(v) ELSE Raise("TypeError")

\* _normalize_atom(atom), atom a dict
_normalize_atom(atom) ==
    LET text == Slice160(OrElse(Get(atom, "text"), PyStr("")))
        placeholder == Slice160(OrElse(Get(atom, "placeholder"), PyStr("")))
    IN  IF text.exc # "none" THEN Raise(text.exc)
        ELSE IF placeholder.exc # "none" THEN Raise(placeholder.exc)
        ELSE Ok([k |-> "dict",
                 kind |-> Get(atom, "kind"),
                 tag |-> Get(atom, "tag"),
                 text |-> text.val,
                 placeholder |-> placeholder.val,
                 inputType |-> OrElse(Get(atom, "inputType"), PyStr("")),
                 href |-> OrElse(Get(atom, "href"), PyStr("")),
                 src |-> OrElse(Get(atom, "src"), PyStr("")),
                 bbox |-> OrElse(Get(atom, "bbox"), EmptyDict),
                 styles |-> OrElse(Get(atom, "styles"), EmptyDict)])

\* the kinds _count_atoms counts, with the key each one adds to
CountedKinds ==
    [heading |-> "headings", text |-> "text", link |-> "links", button |-> "buttons",
     image |-> "images", video |-> "videos", input |-> "inputs"]

KindIs(atom, kind) == atom.kind = PyStr(kind)

\* _count_atoms(atoms)
_count_atoms(atoms) ==
    [key \in {CountedKinds[kind] : kind \in DOMAIN CountedKinds} |->
        Cardinality({i \in 1..Len(atoms) :
                        \E kind \in DOMAIN CountedKinds :
                            CountedKinds[kind] = key /\ KindIs(atoms[i], kind)})]

\* _top_summary_color(styles, key), styles a dict
_top_summary_color(styles, key) ==
    LET values == Get(styles, key)
        hits == IF IsList(values)
                THEN {i \in 1..Len(values.elems) :
                         IsDict(values.elems[i]) /\ Truthy(Get(values.elems[i], "value"))}
                ELSE {}
    IN  IF hits = {} THEN None
        ELSE values.elems[CHOOSE i \in hits : \A j \in hits : i <= j].value

\* the search words of _infer_semantic_role that the text of an atom contains
TextWords(s) ==
    CASE s = "pricing plans" -> {"pricing", "plan"}
      [] s = "get started" -> {"get started"}
      [] OTHER -> {}   \* "welcome", "hello", "  ", ""

\* the search words in _text_blob(atoms)
_text_blob(atoms) ==
    UNION {IF IsStr(atoms[i].text) /\ Strip(atoms[i].text.s) # ""
           THEN TextWords(atoms[i].text.s) ELSE {} : i \in 1..Len(atoms)}

\* _infer_semantic_role(atoms, stats)
_infer_semantic_role(atoms, stats) ==
    LET text == _text_blob(atoms)
        has(words) == words \cap text # {}
    IN  IF has({"pricing", "price", "plan"}) THEN "Pricing"
        ELSE IF has({"faq", "question"}) THEN "FAQ"
        ELSE IF has({"testimonial", "case study"}) THEN "Testimonials"
        ELSE IF stats["inputs"] >= 1 /\ stats["buttons"] + stats["links"] >= 1 THEN "CTA"
        ELSE IF has({"contact", "demo", "get started", "signup"}) THEN "CTA"
        ELSE IF stats["images"] >= 6 /\ stats["headings"] <= 1 /\ stats["buttons"] = 0
        THEN "LogoCloud"
        ELSE IF /\ stats["headings"] >= 1
                /\ stats["buttons"] + stats["links"] >= 1
                /\ stats["images"] >= 1
        THEN "Hero"
        ELSE IF stats["headings"] >= 3 THEN "Feature"
        ELSE "Section"

RECURSIVE SumSeq(_)
SumSeq(s) == IF s = <<>> THEN 0 ELSE Head(s) + SumSeq(Tail(s))

\* _infer_layout_pattern(atoms), atoms normalized
_infer_layout_pattern(atoms) ==
    LET images == SelectSeq(atoms, LAMBDA a : KindIs(a, "image"))
        texts == SelectSeq(atoms, LAMBDA a : \E kind \in {"heading", "text", "input"} :
                                                  KindIs(a, kind))
        \* a.get("bbox", {}).get("x") over images, then over texts
        xOf(a) == IF IsDict(a.bbox) THEN Ok(Get(a.bbox, "x")) ELSE Raise("AttributeError")
        img_all == FirstRaised([i \in 1..Len(images) |-> xOf(images[i])])
        txt_all == FirstRaised([i \in 1..Len(texts) |-> xOf(texts[i])])
        img_x == SelectSeq(img_all.val, LAMBDA x : x.k = "int")
        txt_x == SelectSeq(txt_all.val, LAMBDA x : x.k = "int")
        img_sum == SumSeq([i \in 1..Len(img_x) |-> img_x[i].n])
        txt_sum == SumSeq([i \in 1..Len(txt_x) |-> txt_x[i].n])
    IN  IF Len(images) >= 3 /\ Len(texts) >= 3 THEN Ok("Grid")
        ELSE IF images # <<>> /\ texts # <<>> /\ img_all.exc # "none" THEN Raise(img_all.exc)
        ELSE IF images # <<>> /\ texts # <<>> /\ txt_all.exc # "none" THEN Raise(txt_all.exc)
        ELSE IF images # <<>> /\ texts # <<>> /\ img_x # <<>> /\ txt_x # <<>>
        \* sum(img_x) / len(img_x) > sum(txt_x) / len(txt_x)
        THEN IF img_sum * Len(txt_x) > txt_sum * Len(img_x)
             THEN Ok("Split_Right_Image") ELSE Ok("Split_Left_Image")
        ELSE IF texts # <<>> /\ images = <<>> THEN Ok("Stack")
        ELSE Ok("Section")

\* _map_color_to_token(color, primary, fg, bg); color a str, the others values
_map_color_to_token(color, primary, fg, bg) ==
    IF color = "" THEN None
    ELSE IF Truthy(primary) /\ PyStr(color) = primary THEN PyStr("var(--primary)")
    ELSE IF Truthy(fg) /\ PyStr(color) = fg THEN PyStr("var(--foreground)")
    ELSE IF Truthy(bg) /\ PyStr(color) = bg THEN PyStr("var(--background)")
    ELSE None

\* one pass of the loop over normalized_atoms: role and normalizedStyles
EnrichedAtom(atom, primary, background) ==
    LET styles == IF IsDict(atom.styles) THEN atom.styles ELSE EmptyDict
        bg_value == Get(styles, "backgroundColor")
        role == IF \E kind \in {"link", "button"} : KindIs(atom, kind)
                THEN IF /\ IsStr(bg_value)
                        /\ bg_value.s # ""
                        /\ bg_value.s \notin {"transparent", "rgba(0, 0, 0, 0)"}
                     THEN PyStr("cta-main") ELSE PyStr("cta-secondary")
                ELSE None
        color == IF IsStr(Get(styles, "color")) THEN Get(styles, "color").s ELSE ""
        bg == IF IsStr(bg_value) THEN bg_value.s ELSE ""
    IN  [atom |-> atom,
         role |-> role,
         color |-> _map_color_to_token(color, primary, primary, background),
         backgroundColor |-> _map_color_to_token(bg, primary, primary, background)]

\* the body of the loop of build_atoms_dsl for one section of atoms.json
DslSection(section) ==
    LET atoms == IF IsList(Get(section, "atoms")) THEN Get(section, "atoms").elems ELSE <<>>
        dict_atoms == SelectSeq(atoms, IsDict)
        normalized == FirstRaised([i \in 1..Len(dict_atoms) |-> _normalize_atom(dict_atoms[i])])
        normalized_atoms == normalized.val
        counts == _count_atoms(normalized_atoms)
        styles_summary == OrElse(Get(section, "computed_styles"), EmptyDict)
        primary == _top_summary_color(styles_summary, "textColors")
        background == _top_summary_color(styles_summary, "bgColors")
        layout_pattern == _infer_layout_pattern(normalized_atoms)
    IN  IF normalized.exc # "none" THEN Raise(normalized.exc)
        ELSE IF ~IsDict(styles_summary) THEN Raise("AttributeError")
        ELSE IF layout_pattern.exc # "none" THEN Raise(layout_pattern.exc)
        ELSE Ok([index |-> Get(section, "index"),
                 title |-> OrElse(Get(section, "title"), PyStr("")),
                 stats |-> counts,
                 styles |-> styles_summary,
                 semanticRole |-> _infer_semantic_role(normalized_atoms, counts),
                 layoutPattern |-> layout_pattern.val,
                 colors |-> [foreground |-> OrElse(primary, PyStr("")),
                             background |-> OrElse(background, PyStr("")),
                             accent |-> OrElse(primary, PyStr(""))],
                 atoms |-> [i \in 1..Len(normalized_atoms) |->
                               EnrichedAtom(normalized_atoms[i], primary, background)]])

\* build_atoms_dsl on the sections of atoms.json (each a dict, as capture_site
\* writes them; json.dumps and json.loads give these values back)
build_atoms_dsl(sections) ==
    FirstRaised([i \in 1..Len(sections) |-> DslSection(sections[i])])

\* f"Section {idx + 1}"
SectionLabel(n) == <<"Section 1", "Section 2", "Section 3", "Section 4">>[n]

\* one pass of the loop of map_sections that fills section_titles
SectionTitle(idx, extracted_sections, capture_payloads) ==
    LET extracted == IF idx < Len(extracted_sections)
                     THEN IF IsDict(extracted_sections[idx + 1])
                          THEN Ok(Get(extracted_sections[idx + 1], "title"))
                          ELSE Raise("AttributeError")
                     ELSE Ok(None)
        captured == IF ~Truthy(extracted.val) /\ idx < Len(capture_payloads)
                    THEN IF IsDict(capture_payloads[idx + 1])
                         THEN Ok(Get(capture_payloads[idx + 1], "title"))
                         ELSE Raise("AttributeError")
                    ELSE extracted
    IN  IF extracted.exc # "none" THEN Raise(extracted.exc)
        ELSE IF captured.exc # "none" THEN Raise(captured.exc)
        ELSE IF IsStr(captured.val) /\ Strip(captured.val.s) # ""
        THEN Ok(Strip(captured.val.s))
        ELSE Ok(SectionLabel(idx + 1))

\* section_titles of map_sections for a page with section boxes: total is
\* len(section_boxes), and capture_payloads has an entry per box
section_titles(extracted_sections, capture_payloads) ==
    FirstRaised([i \in 1..Len(capture_payloads) |->
                    SectionTitle(i - 1, extracted_sections, capture_payloads)])

\* ---- the captured sections of the modelled pages ----
Box(top, height) == [k |-> "dict", top |-> PyInt(top), height |-> PyInt(height)]

BBox(x, y, w, h) == [k |-> "dict", x |-> PyInt(x), y |-> PyInt(y), w |-> PyInt(w), h |-> PyInt(h)]

Node(tag, bbox) == [k |-> "dict", tag |-> PyStr(tag), bbox |-> bbox]

Atom(kind, text, bbox) ==
    [k |-> "dict", kind |-> PyStr(kind), text |-> text, bbox |-> bbox]

Entry(value, count) == [k |-> "dict", value |-> value, count |-> count]

\* six nodes in two columns
SplitNodes ==
    PyList([i \in 1..6 |-> Node(IF i = 6 THEN "a" ELSE "div",
                                BBox(IF i <= 3 THEN 0 ELSE 700, 100 * i, 500, 80))])

\* three nodes in one column
StackNodes == PyList([i \in 1..3 |-> Node("p", BBox(0, 100 * i, 500, 80))])

\* the nodes of SplitNodes among nodes that are not dicts, have no bbox, a
\* bbox that is a string, or a coordinate that is None or not a numeral
MixedNodes ==
    PyList(SplitNodes.elems
           \o <<PyStr("node"),
                [k |-> "dict", tag |-> PyStr("a")],
                [k |-> "dict", tag |-> PyStr("a"), bbox |-> PyStr("0,0,10,10")],
                Node("div", [BBox(0, 0, 10, 10) EXCEPT !.x = None]),
                Node("div", [BBox(0, 0, 10, 10) EXCEPT !.w = PyStr("wide")])>>)

Summary ==
    [k |-> "dict",
     textColors |-> PyList(<<Entry(PyStr("rgb(1, 2, 3)"), PyInt(2))>>),
     bgColors |-> PyList(<<Entry(PyStr("rgb(255, 255, 255)"), PyInt(1))>>),
     fonts |-> PyList(<<Entry(PyStr("inter"), PyInt(3))>>)]

\* a summary whose fields have the wrong types
WrongFieldsSummary ==
    [k |-> "dict",
     textColors |-> PyStr("rgb(1, 2, 3)"),
     bgColors |-> PyList(<<PyStr("white"), Entry(None, PyInt(1)),
                           Entry(PyStr("rgb(255, 255, 255)"), PyStr("many"))>>),
     fonts |-> PyInt(3)]

HeroAtoms ==
    PyList(<<Atom("heading", PyStr("welcome"), BBox(0, 0, 500, 80)),
             Atom("image", PyStr(""), BBox(700, 0, 500, 400)),
             [k |-> "dict", kind |-> PyStr("button"), text |-> PyStr("get started"),
              bbox |-> BBox(0, 200, 120, 40),
              styles |-> [k |-> "dict", backgroundColor |-> PyStr("rgb(1, 2, 3)"),
                          color |-> PyStr("rgb(255, 255, 255)")]]>>)

PricingAtoms == PyList(<<Atom("text", PyStr("pricing plans"), BBox(0, 0, 500, 80))>>)

Payload(title, atoms, nodes, summary) ==
    [k |-> "dict", title |-> title, atoms |-> atoms,
     computed_styles |-> [k |-> "dict", nodes |-> nodes, summary |-> summary]]

Section(box, payload) == [box |-> box, payload |-> payload]

\* sections as the page scripts deliver them
WellFormedSections ==
    <<Section(Box(0, 600), Payload(PyStr("welcome"), HeroAtoms, SplitNodes, Summary)),
      Section(Box(1000, 400), Payload(PyStr("pricing plans"), PricingAtoms, StackNodes, Summary))>>

\* the payload is not a dict
NonDictPayloadSection == Section(Box(650, 300), PyStr("oops"))

\* the text of an atom is a number
NumberTextSection ==
    Section(Box(650, 300),
            Payload(PyStr("hello"),
                    PyList(<<Atom("text", PyInt(2024), BBox(0, 0, 500, 80))>>),
                    StackNodes, Summary))

\* sections with one malformed part each
CorruptSections ==
    <<\* no box measures, and atoms and nodes without bbox
      Section(EmptyDict,
              Payload(PyStr("hello"),
                      PyList(<<[k |-> "dict", kind |-> PyStr("image")],
                               [k |-> "dict", kind |-> PyStr("text"), text |-> PyStr("hello")]>>),
                      PyList(<<[k |-> "dict", tag |-> PyStr("p")],
                               [k |-> "dict", tag |-> PyStr("p")],
                               [k |-> "dict", tag |-> PyStr("p")]>>),
                      Summary)),
      NonDictPayloadSection,
      Section(Box(650, 300), None),
      \* an empty payload
      Section(Box(650, 300), EmptyDict),
      \* computed_styles is not a dict
      Section(Box(650, 300),
              [k |-> "dict", title |-> PyStr("hello"), atoms |-> PricingAtoms,
               computed_styles |-> PyStr("none")]),
      \* the style summary is not a dict
      Section(Box(650, 300), Payload(PyStr("hello"), PricingAtoms, StackNodes, PyStr("n/a"))),
      \* the fields of the style summary have the wrong types
      Section(Box(650, 300), Payload(PyStr("hello"), PricingAtoms, StackNodes, WrongFieldsSummary)),
      NumberTextSection,
      \* the bbox of an atom is a string
      Section(Box(650, 300),
              Payload(PyStr("hello"),
                      PyList(<<Atom("image", PyStr(""), PyStr("0,0,10,10")),
                               Atom("text", PyStr("hello"), BBox(0, 0, 500, 80))>>),
                      StackNodes, Summary)),
      \* atoms is not a list; an atom is not a dict
      Section(Box(650, 300), Payload(PyStr("hello"), PyStr("atoms"), StackNodes, Summary)),
      Section(Box(650, 300),
              Payload(PyStr("hello"), PyList(<<PyStr("atom"), None>>), StackNodes, Summary)),
      \* malformed nodes
      Section(Box(650, 300), Payload(PyStr("hello"), PricingAtoms, MixedNodes, Summary)),
      \* the title is blank, or not a string
      Section(Box(650, 300), Payload(PyStr("  "), PricingAtoms, StackNodes, Summary)),
      Section(Box(650, 300), Payload(PyInt(7), PricingAtoms, StackNodes, Summary)),
      \* the top of the box is not a number
      Section([Box(650, 300) EXCEPT !.top = PyStr("auto")],
              Payload(PyStr("hello"), PricingAtoms, StackNodes, Summary))>>

SectionCases == WellFormedSections \o CorruptSections

IsCorrupt(section) == \E i \in 1..Len(CorruptSections) : section = CorruptSections[i]

\* extract_data["sections"]: none, or one titled section for the first box
ExtractedChoices == << <<>>, <<[k |-> "dict", title |-> PyStr("intro")]>> >>

\* the pages: one to MaxPayloads captured sections
PageInputs ==
    {[i \in DOMAIN c |-> SectionCases[c[i]]] :
        c \in UNION {[1..n -> 1..Len(SectionCases)] : n \in 1..MaxPayloads}}

InitPipeline ==
    /\ plPage \in PageInputs
    /\ \E e \in 1..Len(ExtractedChoices) : plExtracted = ExtractedChoices[e]
    /\ plCapture = NoCapture
    /\ plDsl = <<>>
    /\ plTitles = <<>>
    /\ plExc = "none"
    /\ plStage = "start"
    /\ PipelineAlone

\* capture_site: section groups, atoms payload and computed style counts
CaptureSections ==
    /\ plStage = "start"
    /\ LET out == capture_sections(plPage)
       IN  IF out.exc = "none"
           THEN /\ plCapture' = out.val
                /\ plStage' = "captured"
                /\ plExc' = "none"
           ELSE /\ plCapture' = NoCapture
                /\ plStage' = "capture_raised"
                /\ plExc' = out.exc
    /\ UNCHANGED <<plPage, plExtracted, plDsl, plTitles>>
    /\ UNCHANGED plOthers

\* build_atoms_dsl on the atoms payload capture_site wrote
BuildAtomsDsl ==
    /\ plStage = "captured"
    /\ LET out == build_atoms_dsl(plCapture.atoms)
       IN  IF out.exc = "none"
           THEN /\ plDsl' = out.val
                /\ plStage' = "dsl_built"
                /\ plExc' = "none"
           ELSE /\ plDsl' = <<>>
                /\ plStage' = "dsl_raised"
                /\ plExc' = out.exc
    /\ UNCHANGED <<plPage, plExtracted, plCapture, plTitles>>
    /\ UNCHANGED plOthers

\* map_sections up to the section titles, on the captured payloads
SectionTitles ==
    /\ plStage = "dsl_built"
    /\ LET out == section_titles(plExtracted,
                                 [i \in 1..Len(plPage) |-> plPage[i].payload])
       IN  IF out.exc = "none"
           THEN /\ plTitles' = out.val
                /\ plStage' = "titled"
                /\ plExc' = "none"
           ELSE /\ plTitles' = <<>>
                /\ plStage' = "titles_raised"
                /\ plExc' = out.exc
    /\ UNCHANGED <<plPage, plExtracted, plCapture, plDsl>>
    /\ UNCHANGED plOthers

NextPipeline ==
    \/ CaptureSections
    \/ BuildAtomsDsl
    \/ SectionTitles

SpecPipeline == InitPipeline /\ [][NextPipeline]_vars

(***************************************************************************)
(* HSL strings as text: theme.py _parse_hsl, the f-string that ends        *)
(* _rgb_channels_to_hsl, llm_filler.py _hsl_value                          *)
(***************************************************************************)
MaxPad == 1

DigitChars == <<"0", "1", "2", "3", "4", "5", "6", "7", "8", "9">>

IsDigit(c) == \E i \in 1..10 : DigitChars[i] = c

DigitValue(c) == (CHOOSE i \in 1..10 : DigitChars[i] = c) - 1

\* str(n)
RECURSIVE Decimal(_)
Decimal(n) ==
    IF n < 0 THEN <<"-">> \o Decimal(-n)
    ELSE IF n < 10 THEN <<DigitChars[n + 1]>>
    ELSE Decimal(n \div 10) \o <<DigitChars[(n % 10) + 1]>>

\* f"{h} {s}% {l}%"
FormatHsl(h, s, l) ==
    Decimal(h) \o <<" ">> \o Decimal(s) \o <<"%", " ">> \o Decimal(l) \o <<"%">>

IsSpace(c) == c \in {" ", "\t", "\n"}

RECURSIVE LStrip(_)
LStrip(t) == IF t # <<>> /\ IsSpace(t[1]) THEN LStrip(Tail(t)) ELSE t

RECURSIVE RStrip(_)
RStrip(t) ==
    IF t # <<>> /\ IsSpace(t[Len(t)]) THEN RStrip(SubSeq(t, 1, Len(t) - 1)) ELSE t

\* value.strip()
StripText(t) == RStrip(LStrip(t))

\* value.replace("%", "")
WithoutPercent(t) == SelectSeq(t, LAMBDA c : c # "%")

\* value.split(): the maximal runs of characters that are not whitespace
RECURSIVE SplitText(_, _)
SplitText(t, word) ==
    IF t = <<>> THEN (IF word = <<>> THEN <<>> ELSE <<word>>)
    ELSE IF IsSpace(t[1])
         THEN (IF word = <<>> THEN <<>> ELSE <<word>>) \o SplitText(Tail(t), <<>>)
         ELSE SplitText(Tail(t), Append(word, t[1]))

\* float(part) does not raise: over the characters of HslTexts (digits,
\* whitespace, "%", "\", "d", "s") the parts float() accepts are the runs of digits
IsNumber(part) == part # <<>> /\ \A i \in 1..Len(part) : IsDigit(part[i])

RECURSIVE NumberValue(_)
NumberValue(part) ==
    IF part = <<>> THEN 0
    ELSE 10 * NumberValue(SubSeq(part, 1, Len(part) - 1)) + DigitValue(part[Len(part)])

\* _parse_hsl(value) on the characters of value: replace, split and float,
\* then the truncation of _parse_hsl above
ParseHslText(t) ==
    LET parts == SplitText(WithoutPercent(t), <<>>) IN
    IF t = <<>> THEN None
    ELSE IF Len(parts) < 3 THEN None
    ELSE IF \E i \in 1..3 : ~IsNumber(parts[i]) THEN None        \* ValueError
    ELSE _parse_hsl([k |-> "str", parts |-> [i \in 1..3 |-> 10 * NumberValue(parts[i])]])

\* r"^\\d+\\s+\\d+%\\s+\\d+%$": in a raw string "\\" is the two characters
\* of an escaped backslash, so the pattern reads: a backslash, one or more
\* "d", a backslash, one or more "s", a backslash, one or more "d", "%", ...
Lit(c) == [c |-> c, plus |-> FALSE]

Plus(c) == [c |-> c, plus |-> TRUE]

HslPattern ==
    <<Lit("\\"), Plus("d"), Lit("\\"), Plus("s"), Lit("\\"), Plus("d"), Lit("%"),
      Lit("\\"), Plus("s"), Lit("\\"), Plus("d"), Lit("%")>>

\* re.match(pattern, t) for a pattern of literals and "x+" items that ends with $
RECURSIVE ReMatch(_, _)
ReMatch(pat, t) ==
    IF pat = <<>> THEN t = <<>> \/ t = <<"\n">>
    ELSE IF t = <<>> \/ t[1] # pat[1].c THEN FALSE
    ELSE IF pat[1].plus
         THEN ReMatch(pat, Tail(t)) \/ ReMatch(Tail(pat), Tail(t))
         ELSE ReMatch(Tail(pat), Tail(t))

\* a Python str, by its characters
Text(t) == [k |-> "str", chars |-> t]

\* _hsl_value(value, fallback)
_hsl_value(value, fallback) ==
    IF value.k = "str" /\ ReMatch(HslPattern, StripText(value.chars))
    THEN Text(StripText(value.chars))
    ELSE fallback

Hues == {0, 7, 221, 360}

Percents == {0, 50, 100}

Pad(n) == [i \in 1..n |-> " "]

\* "H S% L%" with integer components, with whitespace around it
WellFormedHslTexts ==
    {Pad(a) \o FormatHsl(h, s, l) \o Pad(b) :
        h \in Hues, s \in Percents, l \in Percents, a \in 0..MaxPad, b \in 0..MaxPad}

\* the string the pattern of _hsl_value accepts, and strings _parse_hsl rejects
OtherHslTexts ==
    {<<"\\", "d", "\\", "s", "\\", "d", "%", "\\", "s", "\\", "d", "%">>,
     <<>>,
     <<"2", "2", "0", " ", "6", "0", "%">>}

HslTexts == WellFormedHslTexts \cup OtherHslTexts

\* base_colors.get("primary", "221 83% 53%") of an empty base_tokens
HslFallback == Text(FormatHsl(221, 83, 53))

InitHsl ==
    /\ hsInput \in HslTexts
    /\ hsText = hsInput
    /\ hsTriple = None
    /\ hsOut = <<>>
    /\ hsFirst = <<>>
    /\ hsAccepted = None
    /\ hsRound = 1
    /\ hsStage = "text"
    /\ HslAlone

\* _parse_hsl(hsText)
ParseHsl ==
    /\ hsStage = "text"
    /\ hsTriple' = ParseHslText(hsText)
    /\ hsStage' = IF hsTriple' = None THEN "unparsed" ELSE "parsed"
    /\ UNCHANGED <<hsInput, hsText, hsOut, hsFirst, hsAccepted, hsRound>>
    /\ UNCHANGED hsOthers

\* the triple written back as "H S% L%"
FormatTriple ==
    /\ hsStage = "parsed"
    /\ hsOut' = FormatHsl(hsTriple.h, hsTriple.s, hsTriple.l)
    /\ hsFirst' = IF hsRound = 1 THEN hsOut' ELSE hsFirst
    /\ hsStage' = "formatted"
    /\ UNCHANGED <<hsInput, hsText, hsTriple, hsAccepted, hsRound>>
    /\ UNCHANGED hsOthers

\* _hsl_value(s, fallback) on the string the round trip started from
HslValue ==
    /\ hsStage = "formatted"
    /\ hsRound = 1
    /\ hsAccepted' = _hsl_value(Text(hsInput), HslFallback)
    /\ hsStage' = "valued"
    /\ UNCHANGED <<hsInput, hsText, hsTriple, hsOut, hsFirst, hsRound>>
    /\ UNCHANGED hsOthers

\* the round trip applied to its own result
RoundTripAgain ==
    /\ hsStage = "valued"
    /\ hsText' = hsOut
    /\ hsRound' = 2
    /\ hsStage' = "text"
    /\ UNCHANGED <<hsInput, hsTriple, hsOut, hsFirst, hsAccepted>>
    /\ UNCHANGED hsOthers

NextHsl ==
    \/ ParseHsl
    \/ FormatTriple
    \/ HslValue
    \/ RoundTripAgain

SpecHsl == InitHsl /\ [][NextHsl]_vars

(***************************************************************************)
(* Pages of one domain: the per-page stages of run.py (capture_site,       *)
(* map_sections, build_design_system, generate_theme_and_media_plan) run   *)
(* for two pages at once over the files of the site directory              *)
(***************************************************************************)
PageSlugs == {"home", "pricing"}

PageSettings == {p \in SampleSettings : p[1] \in {"button_bg", "body_font"}}

\* the style samples _extract_style_samples can take from a page
PageSamples == {MakeSamples(D) : D \in SubsetsUpTo(PageSettings, 1)}

\* what the LLM answers for a page: nothing usable (no API key, or the call
\* raised), or a theme
NoAnswer == [k |-> "none"]

ThemeAnswer ==
    [k |-> "dict",
     colors |-> [primary |-> Text(FormatHsl(220, 60, 50))],
     typography |-> [heading |-> "Georgia, serif"]]

LlmAnswers == {NoAnswer, ThemeAnswer}

\* d.get(key, default) on a record
TokGet(d, key, default) == IF key \in DOMAIN d THEN d[key] ELSE default

\* a colour of the tokens as json.dump writes it
HslChars(c) == Text(FormatHsl(c.parts[1] \div 10, c.parts[2] \div 10, c.parts[3] \div 10))

\* the tokens of build_theme_tokens as write_theme_files writes them
WrittenTokens(tokens) ==
    [tokens EXCEPT !.colors = [t \in DOMAIN tokens.colors |-> HslChars(tokens.colors[t])]]

\* <site_dir>/theme/tokens.json: missing, opened for writing (and so
\* truncated) or written, and the page whose stage wrote it
NoFile == [state |-> "missing", writer |-> "", tokens |-> EmptyDict]

OpenFile(p) == [state |-> "open", writer |-> p, tokens |-> EmptyDict]

WrittenFile(p, tokens) == [state |-> "written", writer |-> p, tokens |-> tokens]

\* _normalize_theme(theme, base_tokens)
_normalize_theme(theme, base_tokens) ==
    LET base_colors == TokGet(base_tokens, "colors", EmptyDict)
        base_typography == TokGet(base_tokens, "typography", EmptyDict)
        colors == TokGet(theme, "colors", EmptyDict)
        typography == TokGet(theme, "typography", EmptyDict)
        font(key) == OrString(TokGet(typography, key, ""),
                              OrString(TokGet(base_typography, key, ""), "Inter"))
    IN  [colors |-> [t \in Range(ColorTokens) |->
                        _hsl_value(TokGet(colors, t, None),
                                   TokGet(base_colors, t, HslChars(DefaultColor(t))))],
         typography |-> [body |-> font("body"), heading |-> font("heading")],
         radius |-> OrString(TokGet(theme, "radius", ""),
                             OrString(TokGet(base_tokens, "radius", ""), "12px"))]

\* generate_theme_and_media_plan: the theme it returns and writes, from
\* the LLM's answer and the base tokens it read
ThemeTokens(answer, base_tokens) ==
    IF answer = NoAnswer THEN _normalize_theme(base_tokens, base_tokens)
    ELSE _normalize_theme(answer, base_tokens)

\* build_design_system: the design tokens it derives from theme/tokens.json
DesignTokens(tokens) ==
    [status |-> "ok",
     primary |-> TokGet(TokGet(tokens, "colors", EmptyDict), "primary", None),
     secondary |-> TokGet(TokGet(tokens, "colors", EmptyDict), "secondary", None),
     accent |-> TokGet(TokGet(tokens, "colors", EmptyDict), "secondary", None),
     palette |-> TokGet(tokens, "palette", EmptyDict),
     spacing |-> TokGet(tokens, "spacing", EmptyDict),
     typography |-> TokGet(tokens, "typography", EmptyDict),
     radius |-> TokGet(tokens, "radius", "")]

NoOutcome == [status |-> "none"]

Raised(e) == [status |-> "raised", exc |-> e]

InitPages ==
    /\ pgSamples \in [PageSlugs -> PageSamples]
    /\ pgAnswer \in [PageSlugs -> LlmAnswers]
    /\ pgPc = [p \in PageSlugs |-> "capture"]
    /\ pgTokens = NoFile
    /\ pgFiles = [p \in PageSlugs |-> {}]
    /\ pgDesign = [p \in PageSlugs |-> NoOutcome]
    /\ pgTheme = [p \in PageSlugs |-> NoOutcome]
    /\ pgBuilt = [p \in PageSlugs |-> EmptyDict]
    /\ pgReads = [p \in PageSlugs |-> {}]
    /\ PagesAlone

\* capture_site(url, output_root, page_slug) up to the first open(.., "w")
\* of write_theme_files: the page's capture files are written,
\* build_theme_tokens has run (out is what it gave), theme/tokens.json is
\* truncated
CaptureOutcome(p, out) ==
    /\ pgPc[p] = "capture"
    /\ IF out.raised
       THEN /\ pgPc' = [pgPc EXCEPT ![p] = "raised"]
            /\ pgDesign' = [pgDesign EXCEPT ![p] = Raised(out.exc)]
            /\ pgTheme' = [pgTheme EXCEPT ![p] = Raised(out.exc)]
            /\ UNCHANGED <<pgTokens, pgBuilt>>
       ELSE /\ pgPc' = [pgPc EXCEPT ![p] = "writing"]
            /\ pgTokens' = OpenFile(p)
            /\ pgBuilt' = [pgBuilt EXCEPT ![p] = out.tokens]
            /\ UNCHANGED <<pgDesign, pgTheme>>
    /\ pgFiles' = [pgFiles EXCEPT ![p] = @ \cup {"capture"}]
    /\ UNCHANGED <<pgSamples, pgAnswer, pgReads>>
    /\ UNCHANGED pgOthers

CaptureSite(p) == CaptureOutcome(p, build_theme_tokens(pgSamples[p]))

\* json.dump(tokens, f) of write_theme_files in capture_site
WriteThemeFiles(p) ==
    /\ pgPc[p] = "writing"
    /\ pgTokens' = WrittenFile(p, WrittenTokens(pgBuilt[p]))
    /\ pgBuilt' = [pgBuilt EXCEPT ![p] = EmptyDict]
    /\ pgPc' = [pgPc EXCEPT ![p] = "map"]
    /\ UNCHANGED <<pgSamples, pgAnswer, pgFiles, pgDesign, pgTheme, pgReads>>
    /\ UNCHANGED pgOthers

\* map_sections(.., page_slug, ..): reads the page's capture files and
\* writes pages/<page_slug>/sections.json
MapSections(p) ==
    /\ pgPc[p] = "map"
    /\ pgFiles' = [pgFiles EXCEPT ![p] = @ \cup {"sections"}]
    /\ pgPc' = [pgPc EXCEPT ![p] = "design"]
    /\ UNCHANGED <<pgSamples, pgAnswer, pgTokens, pgDesign, pgTheme, pgReads, pgBuilt>>
    /\ UNCHANGED pgOthers

\* build_design_system(output_root, domain, page_slug)
BuildDesignSystem(p) ==
    /\ pgPc[p] = "design"
    /\ IF "capture" \notin pgFiles[p] \/ pgTokens.state = "missing"
       THEN /\ pgDesign' = [pgDesign EXCEPT ![p] = [status |-> "missing"]]
            /\ pgPc' = [pgPc EXCEPT ![p] = "theme"]
            /\ UNCHANGED <<pgTheme, pgReads>>
       ELSE IF pgTokens.state = "open"
       THEN \* json.loads of the truncated file
            /\ pgDesign' = [pgDesign EXCEPT ![p] = Raised("JSONDecodeError")]
            /\ pgTheme' = [pgTheme EXCEPT ![p] = Raised("JSONDecodeError")]
            /\ pgPc' = [pgPc EXCEPT ![p] = "raised"]
            /\ pgReads' = [pgReads EXCEPT ![p] = @ \cup {pgTokens.writer}]
       ELSE /\ pgDesign' = [pgDesign EXCEPT ![p] = DesignTokens(pgTokens.tokens)]
            /\ pgPc' = [pgPc EXCEPT ![p] = "theme"]
            /\ pgReads' = [pgReads EXCEPT ![p] = @ \cup {pgTokens.writer}]
            /\ UNCHANGED pgTheme
    /\ UNCHANGED <<pgSamples, pgAnswer, pgTokens, pgFiles, pgBuilt>>
    /\ UNCHANGED pgOthers

\* generate_theme_and_media_plan(sections_path, output_root) up to the
\* first open(.., "w") of write_theme_files
GenerateTheme(p) ==
    /\ pgPc[p] = "theme"
    /\ IF pgTokens.state = "open"
       THEN /\ pgTheme' = [pgTheme EXCEPT ![p] = Raised("JSONDecodeError")]
            /\ pgPc' = [pgPc EXCEPT ![p] = "raised"]
            /\ pgReads' = [pgReads EXCEPT ![p] = @ \cup {pgTokens.writer}]
            /\ UNCHANGED pgTokens
       ELSE /\ pgTheme' = [pgTheme EXCEPT ![p] =
                              [status |-> "ok",
                               theme |-> ThemeTokens(pgAnswer[p], pgTokens.tokens)]]
            /\ pgPc' = [pgPc EXCEPT ![p] = "theme_writing"]
            /\ pgReads' = [pgReads EXCEPT ![p] =
                              @ \cup (IF pgTokens.state = "missing" THEN {}
                                      ELSE {pgTokens.writer})]
            /\ pgTokens' = OpenFile(p)
    /\ UNCHANGED <<pgSamples, pgAnswer, pgFiles, pgDesign, pgBuilt>>
    /\ UNCHANGED pgOthers

\* json.dump(tokens, f) of write_theme_files in generate_theme_and_media_plan
WriteGeneratedTheme(p) ==
    /\ pgPc[p] = "theme_writing"
    /\ pgTokens' = WrittenFile(p, pgTheme[p].theme)
    /\ pgPc' = [pgPc EXCEPT ![p] = "done"]
    /\ UNCHANGED <<pgSamples, pgAnswer, pgFiles, pgDesign, pgTheme, pgReads, pgBuilt>>
    /\ UNCHANGED pgOthers

NextPages ==
    \E p \in PageSlugs :
        \/ CaptureSite(p)
        \/ WriteThemeFiles(p)
        \/ MapSections(p)
        \/ BuildDesignSystem(p)
        \/ GenerateTheme(p)
        \/ WriteGeneratedTheme(p)

SpecPages == InitPages /\ [][NextPages]_vars

\* The stages of one page run without interruption from the tokens file
\* another page left: the page's outcomes and the file it leaves
PageOutcome(file, answer, out) ==
    LET written == WrittenTokens(out.tokens)
    IN  IF out.raised
        THEN [design |-> Raised(out.exc), theme |-> Raised(out.exc), file |-> file]
        ELSE [design |-> DesignTokens(written),
              theme |-> [status |-> "ok", theme |-> ThemeTokens(answer, written)],
              file |-> ThemeTokens(answer, written)]

RunPage(file, samples, answer) == PageOutcome(file, answer, build_theme_tokens(samples))

\* the outcomes of the pages run one after the other in the given order
RECURSIVE RunInOrder(_, _)
RunRest(order, run) ==
    <<[page |-> order[1], design |-> run.design, theme |-> run.theme]>>
        \o RunInOrder(Tail(order), run.file)

RunInOrder(order, file) ==
    IF order = <<>> THEN <<>>
    ELSE RunRest(order, RunPage(file, pgSamples[order[1]], pgAnswer[order[1]]))

PageOrders == {o \in [1..Cardinality(PageSlugs) -> PageSlugs] : Range(o) = PageSlugs}

(***************************************************************************)
(* Layout Inferencer: capture.py, capture_site._infer_layout_type          *)
(***************************************************************************)
MaxNodes == 6

\* bounding boxes of the style nodes of the modelled sections: 100 x 100
\* nodes in two columns and two rows, one of them once more 8px to the
\* right, and a node of no width
NodeBoxes ==
    <<BBox(0, 0, 100, 100), BBox(400, 0, 100, 100),
      BBox(0, 200, 100, 100), BBox(400, 200, 100, 100),
      BBox(8, 0, 100, 100), BBox(0, 0, 0, 100)>>

\* payload["computed_styles"]["nodes"]: up to MaxNodes nodes
NodeLists ==
    {PyList([i \in DOMAIN c |-> Node("div", NodeBoxes[c[i]])]) :
        c \in UNION {[1..n -> 1..Len(NodeBoxes)] : n \in (MaxNodes - 1)..MaxNodes}}

InitLayout ==
    /\ lyNodes \in NodeLists
    /\ lyOut = ""
    /\ lyStage = "called"
    /\ LayoutAlone

\* one call of _infer_layout_type
InferLayout ==
    /\ lyStage = "called"
    /\ lyOut' = _infer_layout_type(Payload(PyStr("section"), PyList(<<>>), lyNodes, EmptyDict))
    /\ lyStage' = "returned"
    /\ UNCHANGED lyNodes
    /\ UNCHANGED lyOthers

NextLayout == InferLayout

SpecLayout == InitLayout /\ [][NextLayout]_vars

(***************************************************************************)
(* Section grouping: capture.py, capture_site (groups_payload)             *)
(***************************************************************************)
MaxBoxes == 3

\* top and height of the section boxes of the modelled pages
BoxTops == {0, 100, 400, 1300}

BoxHeights == {100, 1000}

\* sections: one to MaxBoxes boxes, in capture order
BoxLists == UNION {[1..n -> BoxTops \X BoxHeights] : n \in 1..MaxBoxes}

InitGroups ==
    /\ grBoxes \in BoxLists
    /\ grGroups = <<>>
    /\ grStage = "sections"
    /\ GroupsAlone

\* sorted_sections and the loop that fills groups_payload
GroupSections ==
    /\ grStage = "sections"
    /\ grGroups' = GroupLoop(SortByTop(Len(grBoxes), [i \in 1..Len(grBoxes) |-> grBoxes[i][1]]),
                             [i \in 1..Len(grBoxes) |-> grBoxes[i][1]],
                             [i \in 1..Len(grBoxes) |-> grBoxes[i][2]],
                             1, <<>>, <<>>, <<FALSE, 0>>)
    /\ grStage' = "grouped"
    /\ UNCHANGED grBoxes
    /\ UNCHANGED grOthers

NextGroups == GroupSections

SpecGroups == InitGroups /\ [][NextGroups]_vars

(***************************************************************************)
(* Semantic tags: run.py main and run_pipeline, semantic_tagger.py,        *)
(* map.py _load_semantic_tags                                              *)
(***************************************************************************)
MaxOverride == 2

\* a file: whether it exists, whether it parses as JSON, its "sections"
NoSemanticFile == [exists |-> FALSE, json |-> FALSE, sections |-> <<>>]

JsonFile(sections) == [exists |-> TRUE, json |-> TRUE, sections |-> sections]

InvalidJsonFile == [exists |-> TRUE, json |-> FALSE, sections |-> <<>>]

\* an entry of "sections" in semantic.json
Tag(index, role, notes) == [index |-> index, semanticRole |-> role, notes |-> notes]

\* no --semantic-override argument
NoOverride == [given |-> FALSE, file |-> NoSemanticFile]

\* the roles an edited override file gives to the sections
OverrideRoles == {"CTA", "FAQ"}

\* the override files: one to MaxOverride sections, numbered from 0
OverrideFiles ==
    {JsonFile([i \in 1..n |-> Tag(i - 1, r[i], "manual")]) :
        n \in 1..MaxOverride, r \in [1..MaxOverride -> OverrideRoles]}

OverrideArgs ==
    {NoOverride}
        \cup {[given |-> TRUE, file |-> f] : f \in {NoSemanticFile, InvalidJsonFile} \cup OverrideFiles}

\* the pages: one to MaxPayloads well-formed sections
SemanticPages ==
    {[i \in DOMAIN c |-> WellFormedSections[c[i]]] :
        c \in UNION {[1..n -> 1..Len(WellFormedSections)] : n \in 1..MaxPayloads}}

\* the roles the model's answer gives (the schema allows every role of roles)
LlmRoles == {"Hero", "Feature"}

\* the items tag_semantics builds from atoms_dsl.json
TaggerItems(dsl) == [i \in 1..Len(dsl) |-> [index |-> dsl[i].index.n,
                                            semanticRole |-> dsl[i].semanticRole]]

\* output["sections"] after the call of the model: empty without a key, on an
\* exception, and on an answer that is not JSON or has no sections
TaggerAnswers(items) ==
    {<<>>} \cup {[i \in 1..Len(items) |-> Tag(items[i].index, r[i], "")] :
                    r \in [1..Len(items) -> LlmRoles]}

\* the rule fallback of tag_semantics; semanticRole of an atoms_dsl section is
\* never empty, so _fallback_role is not called for these items
RuleFallback(items) ==
    [i \in 1..Len(items) |-> Tag(items[i].index, items[i].semanticRole, "rule_fallback")]

\* tag_semantics: the sections it writes, for the answer of the model
tag_semantics(dsl, answer) ==
    IF answer # <<>> THEN answer ELSE RuleFallback(TaggerItems(dsl))

\* apply_semantic_override(.., source_path): semantic.json afterwards
apply_semantic_override(file, source) ==
    IF ~source.exists THEN file
    ELSE IF ~source.json THEN file
    ELSE JsonFile(source.sections)

\* _load_semantic_tags: the entries with an int index, as index -> entry; a
\* later entry replaces an earlier one with the same index
_load_semantic_tags(file) ==
    IF ~file.exists \/ ~file.json THEN <<>>
    ELSE LET sections == file.sections
             indices == {sections[i].index : i \in 1..Len(sections)}
             last(idx) == CHOOSE i \in 1..Len(sections) :
                              /\ sections[i].index = idx
                              /\ \A j \in 1..Len(sections) : sections[j].index = idx => j <= i
         IN  [idx \in indices |-> sections[last(idx)]]

InitSemantic ==
    /\ smArg \in OverrideArgs
    /\ smPage \in SemanticPages
    /\ smDsl = <<>>
    /\ smFile = NoSemanticFile
    /\ smTags = <<>>
    /\ smStage = "main"
    /\ SemanticAlone

\* main: if args.semantic_override: apply_semantic_override(..)
MainOverride ==
    /\ smStage = "main"
    /\ smFile' = IF smArg.given THEN apply_semantic_override(smFile, smArg.file) ELSE smFile
    /\ smStage' = "run_pipeline"
    /\ UNCHANGED <<smArg, smPage, smDsl, smTags>>
    /\ UNCHANGED smOthers

\* run_pipeline: capture_site, which writes sections.json and atoms.json
SemanticCapture ==
    /\ smStage = "run_pipeline"
    /\ smStage' = "captured"
    /\ UNCHANGED <<smArg, smPage, smDsl, smFile, smTags>>
    /\ UNCHANGED smOthers

\* run_pipeline: build_atoms_dsl (atoms.json exists after capture_site)
SemanticBuildDsl ==
    /\ smStage = "captured"
    /\ smDsl' = build_atoms_dsl(capture_sections(smPage).val.atoms).val
    /\ smStage' = "dsl"
    /\ UNCHANGED <<smArg, smPage, smFile, smTags>>
    /\ UNCHANGED smOthers

\* run_pipeline: tag_semantics(.., use_llm=True), which writes semantic.json
TagSemantics ==
    /\ smStage = "dsl"
    /\ \E answer \in TaggerAnswers(TaggerItems(smDsl)) :
          smFile' = JsonFile(tag_semantics(smDsl, answer))
    /\ smStage' = "tagged"
    /\ UNCHANGED <<smArg, smPage, smDsl, smTags>>
    /\ UNCHANGED smOthers

\* map_sections: semantic_tags = _load_semantic_tags(..)
LoadSemanticTags ==
    /\ smStage = "tagged"
    /\ smTags' = _load_semantic_tags(smFile)
    /\ smStage' = "mapped"
    /\ UNCHANGED <<smArg, smPage, smDsl, smFile>>
    /\ UNCHANGED smOthers

NextSemantic ==
    \/ MainOverride
    \/ SemanticCapture
    \/ SemanticBuildDsl
    \/ TagSemantics
    \/ LoadSemanticTags

SpecSemantic == InitSemantic /\ [][NextSemantic]_vars

(***************************************************************************)
(* Block suggestion from atoms: map.py _suggest_block_from_atoms           *)
(***************************************************************************)
MaxImages == 6

MaxHeadings == 3

\* atoms-DSL sections by what the detectors read: the words and matches of
\* the text blob, the layout pattern, the image grid and the atom counts
SuggestInputs ==
    {[EmptyAtoms EXCEPT !.has_price = words[1], !.faq_word = words[2],
                        !.step_word = words[3], !.testimonial_word = words[4],
                        !.question_marks = marks[1], !.quotes = marks[2],
                        !.stat_matches = marks[3],
                        !.split = layout[1], !.grid_like = layout[2],
                        !.images = counts[1], !.headings = counts[2],
                        !.text = counts[3], !.buttons = counts[4]] :
        words \in BOOLEAN \X BOOLEAN \X BOOLEAN \X BOOLEAN,
        marks \in {0, 2} \X {0, 2} \X {0, 2, 3},
        layout \in BOOLEAN \X BOOLEAN,
        counts \in (0..MaxImages) \X (0..MaxHeadings) \X {0, 4} \X {0, 1}}

InitSuggest ==
    /\ sgAtoms \in SuggestInputs
    /\ sgOut = <<>>
    /\ sgStage = "section"
    /\ SuggestAlone

\* suggested_type, suggested_score, suggested_family = _suggest_block_from_atoms(..)
SuggestBlock ==
    /\ sgStage = "section"
    /\ sgOut' = _suggest_block_from_atoms(sgAtoms)
    /\ sgStage' = "suggested"
    /\ UNCHANGED sgAtoms
    /\ UNCHANGED sgOthers

NextSuggest == SuggestBlock

SpecSuggest == InitSuggest /\ [][NextSuggest]_vars

(***************************************************************************)
(* Site crawl: scripts/crawlers/hybrid_crawl_pipeline.py, crawl_site       *)
(***************************************************************************)
MaxUrls == 3

MaxCrawlPages == 3

MaxConcurrency == 2

MaxCrawlDepth == 1

\* the internal URLs of the site; StartUrl is start_url
Urls == 1..MaxUrls

StartUrl == 1

\* links_out of a page: no link (also a page that timed out or failed), a
\* link to one URL, or links to every URL of the site
LinkLists == {<<>>, [i \in Urls |-> i]} \cup {<<u>> : u \in Urls}

\* main_async passes max(1, max_pages), max(0, max_depth), max(1, concurrency)
CrawlConfigs ==
    [links : [Urls -> LinkLists], max_pages : 1..MaxCrawlPages,
     max_depth : {0, MaxCrawlDepth}, concurrency : {1, MaxConcurrency}]

\* variant of the inner while loop that fills a batch whatever len(pages) is
BatchSizeWithoutPageLimit(queue_len, pages_len, concurrency, max_pages) ==
    Min2(queue_len, Max2(1, concurrency))

\* how many entries the inner while loop moves from queue to batch
BatchSize(queue_len, pages_len, concurrency, max_pages) ==
    Min2(queue_len, Min2(Max2(1, concurrency), Max2(0, max_pages - pages_len)))

\* for next_url in links_out: the seen set, the queue and the log afterwards
RECURSIVE EnqueueLinks(_, _, _, _, _)
EnqueueLinks(links_out, depth, seen, queue, log) ==
    IF links_out = <<>> THEN [seen |-> seen, queue |-> queue, log |-> log]
    ELSE IF Head(links_out) \in seen
    THEN EnqueueLinks(Tail(links_out), depth, seen, queue, log)
    ELSE EnqueueLinks(Tail(links_out), depth, seen \cup {Head(links_out)},
                      Append(queue, <<Head(links_out), depth + 1>>),
                      Append(log, Head(links_out)))

InitCrawl ==
    /\ crCfg \in CrawlConfigs
    /\ crQueue = <<<<StartUrl, 0>>>>
    /\ crSeen = {StartUrl}
    /\ crPages = <<>>
    /\ crBatch = <<>>
    /\ crFetched = {}
    /\ crPos = 1
    /\ crEnqueued = <<StartUrl>>
    /\ crStage = "loop"
    /\ CrawlAlone

\* while queue and len(pages) < max_pages: the inner loop that fills batch
FormBatch ==
    /\ crStage = "loop"
    /\ crQueue # <<>> /\ Len(crPages) < crCfg.max_pages
    /\ LET k == BatchSize(Len(crQueue), Len(crPages), crCfg.concurrency, crCfg.max_pages)
       IN  /\ crBatch' = SubSeq(crQueue, 1, k)
           /\ crQueue' = SubSeq(crQueue, k + 1, Len(crQueue))
           \* if not batch: break
           /\ crStage' = IF k = 0 THEN "done" ELSE "gather"
    /\ crFetched' = {}
    /\ crPos' = 1
    /\ UNCHANGED <<crCfg, crSeen, crPages, crEnqueued>>
    /\ UNCHANGED crOthers

\* process_page of one entry of batch returns; the semaphore has
\* max(1, concurrency) permits, as many as a batch has entries at most, and
\* the entries finish in any order
ProcessPage ==
    /\ crStage = "gather"
    /\ \E i \in (1..Len(crBatch)) \ crFetched : crFetched' = crFetched \cup {i}
    /\ UNCHANGED <<crCfg, crQueue, crSeen, crPages, crBatch, crPos, crEnqueued, crStage>>
    /\ UNCHANGED crOthers

\* one pass of the for loop over the results of asyncio.gather, which come
\* in the order of batch
HandleResult ==
    /\ crStage = "gather"
    /\ crFetched = 1..Len(crBatch)
    /\ crPos <= Len(crBatch)
    /\ LET page_url == crBatch[crPos][1]
           depth == crBatch[crPos][2]
           after == EnqueueLinks(crCfg.links[page_url], depth, crSeen, crQueue, crEnqueued)
       IN  /\ crPages' = Append(crPages, page_url)
           /\ IF depth >= crCfg.max_depth
              THEN UNCHANGED <<crSeen, crQueue, crEnqueued>>
              ELSE /\ crSeen' = after.seen
                   /\ crQueue' = after.queue
                   /\ crEnqueued' = after.log
    /\ IF crPos = Len(crBatch)
       THEN /\ crStage' = "loop"
            /\ crBatch' = <<>>
            /\ crFetched' = {}
            /\ crPos' = 1
       ELSE /\ crPos' = crPos + 1
            /\ UNCHANGED <<crStage, crBatch, crFetched>>
    /\ UNCHANGED crCfg
    /\ UNCHANGED crOthers

\* the outer while loop ends
EndCrawl ==
    /\ crStage = "loop"
    /\ ~(crQueue # <<>> /\ Len(crPages) < crCfg.max_pages)
    /\ crStage' = "done"
    /\ UNCHANGED <<crCfg, crQueue, crSeen, crPages, crBatch, crFetched, crPos, crEnqueued>>
    /\ UNCHANGED crOthers

NextCrawl ==
    \/ FormBatch
    \/ ProcessPage
    \/ HandleResult
    \/ EndCrawl

SpecCrawl == InitCrawl /\ [][NextCrawl]_vars

(***************************************************************************)
(* Section Extractor: properties                                           *)
(***************************************************************************)
CandRect(k) == ElemRect[exCandidates[k]]

Accepted == Range(exFiltered)

\* the candidates the forEach has already handled
Processed == IF exStage \in {"idle", "dom"} THEN {} ELSE 1..(exPos - 1)

\* inter / denom > 0.85, written out on the two rectangles
OverlapAbove(a, b) ==
    LET inter == IoUInter(a, b)
        denom == a.width * a.height + b.width * b.height - inter
    IN  denom > 0 /\ 20 * inter > 17 * denom

\* C3: at every point of the extraction (after each candidate is processed,
\* not only at the end) every two distinct accepted sections have
\* IoU <= 0.85.
C3_AcceptedPairsWithinIoU ==
    \A i, j \in 1..Len(exFiltered) :
        i # j => ~OverlapAbove(ElemRect[exFiltered[i]], ElemRect[exFiltered[j]])

\* C3 witness: the extraction is over, a near-duplicate was suppressed and at
\* least two sections were accepted.
C3_Witness ==
    /\ exStage = "done"
    /\ Len(exFiltered) >= 2
    /\ exDropped # {}

\* candidates are processed by ascending top and, for equal top, descending
\* height
C4_Order ==
    \A i, j \in 1..Len(exCandidates) :
        i < j =>
            \/ CandRect(i).top < CandRect(j).top
            \/ /\ CandRect(i).top = CandRect(j).top
               /\ CandRect(i).height >= CandRect(j).height

\* a processed candidate is dropped if and only if a candidate accepted
\* before it has IoU > 0.85 with it, and is accepted otherwise
C4_DropIff ==
    \A k \in Processed :
        LET dup == \E i \in 1..(k - 1) :
                       /\ exCandidates[i] \in Accepted
                       /\ OverlapAbove(CandRect(i), CandRect(k))
        IN  /\ (exCandidates[k] \in exDropped) <=> dup
            /\ (exCandidates[k] \in Accepted) <=> ~dup

\* the first candidate in the order is always accepted
C4_FirstAccepted ==
    1 \in Processed => exCandidates[1] \in Accepted

\* C4 as stated: of ANY two candidates whose mutual IoU exceeds 0.85 exactly
\* one survives, namely the earlier one.
C4_PairEarlierSurvives ==
    \A i, j \in Processed :
        (i < j /\ OverlapAbove(CandRect(i), CandRect(j))) =>
            /\ exCandidates[i] \in Accepted
            /\ exCandidates[j] \notin Accepted

\* C4 (original statement): order, drop-iff, first accepted, and of two
\* near-duplicate candidates exactly the earlier one survives.
C4_Original ==
    /\ C4_Order
    /\ C4_DropIff
    /\ C4_FirstAccepted
    /\ C4_PairEarlierSurvives

\* C4 (amended): order, drop-iff and first accepted as stated; of two
\* candidates whose mutual IoU exceeds 0.85 at most one survives, the later
\* one never survives next to an accepted earlier one, and when they are the
\* only two candidates exactly the earlier one survives.
C4_Amended ==
    /\ C4_Order
    /\ C4_DropIff
    /\ C4_FirstAccepted
    /\ \A i, j \in Processed :
           (i < j /\ OverlapAbove(CandRect(i), CandRect(j))) =>
               /\ ~(exCandidates[i] \in Accepted /\ exCandidates[j] \in Accepted)
               /\ exCandidates[i] \in Accepted => exCandidates[j] \in exDropped
    /\ (exStage = "done" /\ Len(exCandidates) = 2
            /\ OverlapAbove(CandRect(1), CandRect(2))) =>
           exFiltered = <<exCandidates[1]>>

\* C4 witness: the spec's scenario, boxes {0,0,800,200} and {10,5,790,195}
\* are the two candidates and only the first survives.
C4_Witness ==
    /\ exStage = "done"
    /\ exCandidates = <<1, 2>>
    /\ exFiltered = <<1>>
    /\ exDropped = {2}


\* the payloads whose atoms list holds the leaf
SectionsOf(leaf) ==
    {i \in 1..Len(exAtoms) : \E k \in 1..Len(exAtoms[i]) : exAtoms[i][k] = leaf}

\* C16: at extraction time every atom belongs to exactly one section: each
\* captured leaf node is in the atoms list of exactly one accepted container,
\* nested containers included.
C16_AtomInOneSection ==
    exStage = "done" =>
        \A leaf \in 1..Len(LeafNodes) :
            SectionsOf(leaf) # {} => Cardinality(SectionsOf(leaf)) = 1

\* C16, failing input: element 1 and the taller element 4 around it are
\* both accepted as sections
C16_FailingInput ==
    /\ exStage = "done"
    /\ \E i, j \in 1..Len(exFiltered) : exFiltered[i] = 1 /\ exFiltered[j] = 4


\* the size limits as documented: height below 60px, or width below
\* max(320px, 40% of the viewport width)
BelowDocumentedLimits(rect) ==
    \/ rect.height < 60
    \/ 10 * rect.width < Max2(3200, 4 * viewportWidth)

\* C23: section extraction rejects a candidate element exactly when its
\* height is below 60px or its width is below max(320px, 40% of the viewport
\* width); every element at or above both limits becomes a candidate.
C23_RejectedBelowLimits ==
    exStage \in {"suppress", "done"} =>
        \A i \in 1..Len(exDom) :
            (exDom[i] \in Range(exCandidates)) <=> ~BelowDocumentedLimits(ElemRect[exDom[i]])

\* C23, failing input: the 600px wide, 200px high element was matched and
\* the candidates are collected
C23_FailingInput ==
    /\ exStage \in {"suppress", "done"}
    /\ \E i \in 1..Len(exDom) : exDom[i] = 6

(***************************************************************************)
(* Semantic Classifier: properties                                         *)
(***************************************************************************)
\* every archetype candidate of the call, before sorting and truncation
ScoredArchetypes == Range(AllCandidates(_build_signals(clsIn)))

\* C5: classify_section returns at most 5 candidates in non-increasing score
\* order, they are the 5 highest-scoring of all archetype candidates, and the
\* returned family is the family of the first returned candidate.
C5_TopFiveByScore ==
    clsStage = "returned" =>
        LET out == clsOut.candidates IN
        /\ Len(out) <= 5
        /\ Len(out) = Min2(5, Cardinality(ScoredArchetypes))
        /\ \A i \in 1..(Len(out) - 1) : out[i].score >= out[i + 1].score
        /\ \A i, j \in 1..Len(out) : i # j => out[i].type # out[j].type
        /\ \A i \in 1..Len(out) : out[i] \in ScoredArchetypes
        /\ \A c \in ScoredArchetypes :
               c \notin Range(out) => \A i \in 1..Len(out) : out[i].score >= c.score
        /\ out # <<>> => clsOut.family = out[1].family

\* C5 witness: a call returned, more than five archetypes scored above zero
\* and the returned scores are not all equal.
C5_Witness ==
    /\ clsStage = "returned"
    /\ Cardinality({c \in ScoredArchetypes : c.score > 0}) > 5
    /\ clsOut.candidates[1].score > clsOut.candidates[5].score

\* the score classify_section computes for a block type, whether or not the
\* candidate is among the five it returns
CandidateScore(signals, type) ==
    LET all == AllCandidates(signals)
    IN  all[CHOOSE i \in 1..Len(all) : all[i].type = type].score

\* C13: for a section whose text contains "pricing" and the price "$99/mo",
\* in every classification context, the score of PricingCards.v1 is at
\* least 30 points above the score of FeatureGrid.v1.
C13_PricingAboveFeatureGrid ==
    (clsStage = "returned" /\ {"pricing", "$99/mo"} \subseteq clsIn.text) =>
        CandidateScore(clsOut.signals, "PricingCards.v1")
            >= CandidateScore(clsOut.signals, "FeatureGrid.v1") + 30

\* the pricing section in a context that is grid-like (layout width above
\* 600): PricingCards.v1 scores 45, FeatureGrid.v1 scores 25
C13_FailingInput ==
    /\ clsStage = "returned"
    /\ {"pricing", "$99/mo"} \subseteq clsIn.text
    /\ clsIn.flags = {"grid_like"}
    /\ CandidateScore(clsOut.signals, "PricingCards.v1") = 45
    /\ CandidateScore(clsOut.signals, "FeatureGrid.v1") = 25


\* no candidate of the call scores above zero
NoPositiveScore == \A c \in ScoredArchetypes : c.score <= 0

\* C18: when no candidate of a section scores above zero, classification
\* does not raise and the family falls back to Skeleton, never to the family
\* of a zero-score archetype.
C18_SkeletonWhenNoScore ==
    (clsStage = "returned" /\ NoPositiveScore) => clsOut.family = "Skeleton"

\* C18, failing input: a call in which no archetype scores above zero returned
C18_FailingInput ==
    /\ clsStage = "returned"
    /\ NoPositiveScore


\* the sum of the deltas a scorer recorded in its reasons trace
TraceSum(scored) ==
    SumSeq([i \in 1..Len(scored.reasons) |-> scored.reasons[i][2]])

\* the signals of the call with the link count set to 0 (link density 0)
WithoutLinks(signals) == [signals EXCEPT !.links = 0]

\* the signals of the call without the price pattern
WithoutPrice(signals) == [signals EXCEPT !.has_price_pattern = FALSE]

\* C21: the Hero score equals the sum of the deltas recorded in the reasons
\* trace; turning on the high-link-density signal lowers it by exactly 25
\* and turning on the price-pattern signal lowers it by exactly 15.
C21_HeroPenalties ==
    clsStage = "returned" =>
        LET signals == clsOut.signals IN
        /\ _score_hero(signals).score = TraceSum(_score_hero(signals))
        /\ LinkDensityAbove(signals, 8) =>
               _score_hero(signals).score = _score_hero(WithoutLinks(signals)).score - 25
        /\ signals.has_price_pattern =>
               _score_hero(signals).score = _score_hero(WithoutPrice(signals)).score - 15

\* C21, failing input: a call whose text has a price pattern returned
C21_FailingInput ==
    /\ clsStage = "returned"
    /\ clsOut.signals.has_price_pattern
    /\ ~LinkDensityAbove(clsOut.signals, 8)

(***************************************************************************)
(* Design Token Extractor: properties                                      *)
(***************************************************************************)
ThemeCallOver == thStage \in {"returned", "raised"}

NonEmptyHsl(v) == v.k = "str" /\ Len(v.parts) = 3

\* C8: for every samples input, the empty one included, build_theme_tokens
\* returns tokens whose colors.background, colors.foreground, colors.primary,
\* typography.body and typography.heading are present and non-empty.
C8_TokensComplete ==
    ThemeCallOver =>
        /\ ~thOut.raised
        /\ NonEmptyHsl(thOut.tokens.colors["background"])
        /\ NonEmptyHsl(thOut.tokens.colors["foreground"])
        /\ NonEmptyHsl(thOut.tokens.colors["primary"])
        /\ thOut.tokens.typography.body # ""
        /\ thOut.tokens.typography.heading # ""

\* the call with {"root_vars": {"--primary": "#12345g"}} raised
C8_FailingInput ==
    /\ thStage = "raised"
    /\ thSamples["--primary"] = Hex(<<1, 2, 3, 4, 5, NotHex>>)
    /\ \A f \in SampleFields \ {"--primary"} : thSamples[f] = Absent(f)

\* the samples key that alone decides a colour token when it is set
DecidingField ==
    [background |-> "body_bg", foreground |-> "body_color", primary |-> "--primary",
     primary_foreground |-> "--primary-foreground", secondary |-> "link_color",
     muted |-> "card_bg", border |-> "border_color"]

\* a '#' value with non-hex digits or a wrong length, a malformed rgb()
\* string, a non-colour string
Unparseable(v) == \E i \in 1..Len(MalformedColors) : v = MalformedColors[i]

\* C9: build_theme_tokens never raises, and a token whose sampled colour
\* cannot be parsed takes its fixed default (primary "221 83% 53%").
C9_MalformedFallsBack ==
    ThemeCallOver =>
        /\ ~thOut.raised
        /\ \A t \in DOMAIN DecidingField :
              Unparseable(thSamples[DecidingField[t]]) =>
                  thOut.tokens.colors[t] = DefaultColor(t)
        /\ Unparseable(thSamples["--primary"]) =>
              thOut.tokens.colors["primary"] = HslString(221, 83, 53)

\* the call with {"button_bg": "#g12"} raised ValueError
C9_FailingInput ==
    /\ thStage = "raised"
    /\ thOut.exc = "ValueError"
    /\ thSamples["button_bg"] = Hex(<<NotHex, 1, 2>>)
    /\ \A f \in SampleFields \ {"button_bg"} : thSamples[f] = Absent(f)


\* rgba(.., 0): a fully transparent colour
Transparent(v) == \E i \in 1..Len(TransparentColors) : v = TransparentColors[i]

\* the sampled colours that are not transparent, most frequent first
FrequentOpaque(counts) ==
    SelectSeq(SortByCountDesc(counts), LAMBDA item : ~Transparent(item[1]))

\* the token is the HSL form of the most frequent opaque colour of counts
TokenOfMostFrequent(token, counts) ==
    LET hsl == _hex_to_hsl(FrequentOpaque(counts)[1][1])
    IN  (hsl.exc = "none" /\ hsl.val # None) =>
            thOut.tokens.colors[token] = hsl.val

\* C25: whenever aggregated colour samples exist, colors.background is the
\* HSL form of the most frequent sampled background colour and
\* colors.foreground the HSL form of the most frequent sampled text colour,
\* a transparent value never being the one chosen.
C25_MostFrequentColors ==
    (thStage = "returned" /\ ~thOut.raised) =>
        /\ FrequentOpaque(thSamples["computed_bg_colors"]) # <<>> =>
              TokenOfMostFrequent("background", thSamples["computed_bg_colors"])
        /\ FrequentOpaque(thSamples["computed_text_colors"]) # <<>> =>
              TokenOfMostFrequent("foreground", thSamples["computed_text_colors"])

\* the call with {"body_bg": "#ffffff", "computed_bg_colors":
\* {"rgb(100, 100, 110)": 5, "rgb(220, 38, 38)": 3}} returned
C25_FailingInput ==
    /\ thStage = "returned"
    /\ thSamples["body_bg"] = Hex(<<15, 15, 15, 15, 15, 15>>)
    /\ thSamples["computed_bg_colors"] = ColorCounts[1]
    /\ \A f \in SampleFields \ {"body_bg", "computed_bg_colors"} : thSamples[f] = Absent(f)


\* the pixel values collected from computed_padding and computed_margin
SampledPx ==
    _extract_px_values(thSamples["computed_padding"])
        \o _extract_px_values(thSamples["computed_margin"])

Occurrences(values, v) == Cardinality({i \in 1..Len(values) : values[i] = v})

\* the values that occur most often
MostFrequentPx ==
    {v \in Range(SampledPx) :
        \A w \in Range(SampledPx) : Occurrences(SampledPx, v) >= Occurrences(SampledPx, w)}

Clamped(v, low, high) == IF v < low THEN low ELSE IF v > high THEN high ELSE v

\* C26: for every style-sample input the spacing base lies between 4px and
\* 12px, is the most frequent padding / margin pixel value clamped to that
\* range, and the scale has exactly the 5 steps base, 2 base, 3 base, 4 base,
\* 6 base.
C26_SpacingScale ==
    (thStage = "returned" /\ ~thOut.raised) =>
        LET spacing == thOut.tokens.spacing
        IN  /\ spacing.base >= 4 /\ spacing.base <= 12
            /\ SampledPx # <<>> =>
                  \E v \in MostFrequentPx : spacing.base = Clamped(v, 4, 12)
            /\ Len(spacing.scale) = 5
            /\ spacing.scale = <<spacing.base, 2 * spacing.base, 3 * spacing.base,
                                 4 * spacing.base, 6 * spacing.base>>

\* the call with {"computed_padding": {"0px": 12, "auto": 2}} returned: no
\* positive pixel value was sampled
C26_FailingInput ==
    /\ thStage = "returned"
    /\ thSamples["computed_padding"] = SpacingCounts[2]
    /\ \A f \in SampleFields \ {"computed_padding"} : thSamples[f] = Absent(f)

(***************************************************************************)
(* Section Composer: properties                                            *)
(***************************************************************************)
\* the loop body has run for mapped[mapIndex] and its block is not yet appended
SectionMapped == mapStage = "section"

\* the suggestion of the atom rules is one the atom step acts on
SuggestionUsable ==
    /\ mapSection.suggestion.type # ""
    /\ mapSection.suggestion.type \in mapCfg.available_blocks

\* C1: a section typed Footer.v1, Navbar.v1 or AnnouncementBar.v1 when the
\* classifier step starts has the same type after it, and a section of one
\* of these types when the atom-rule step starts has the same type after it,
\* whatever candidates and scores the two steps computed.
C1_SkeletonTypeKept ==
    SectionMapped =>
        /\ (mapSection.type_before_classifier
                \in {"Footer.v1", "Navbar.v1", "AnnouncementBar.v1"}
            => mapSection.type_after_classifier = mapSection.type_before_classifier)
        /\ (mapSection.type_after_classifier
                \in {"Footer.v1", "Navbar.v1", "AnnouncementBar.v1"}
            => mapSection.type_after_atoms = mapSection.type_after_classifier)

\* a Footer.v1 section went through both steps while the atom rules
\* suggested another available block with a score that overrides
C1_Witness ==
    /\ SectionMapped
    /\ mapSection.type_before_classifier = "Footer.v1"
    /\ mapSection.type_after_classifier = "Footer.v1"
    /\ SuggestionUsable
    /\ mapSection.suggestion.type # "Footer.v1"
    /\ mapSection.suggestion.score >= 80
    /\ mapSection.type_after_atoms = "Footer.v1"

\* C2: whenever the semantic file gives the section a semanticRole that maps
\* to an available block, the section's final type is that block, whatever
\* its type was before the semantic step and whatever its index.
C2_SemanticAuthoritative ==
    (/\ SectionMapped
     /\ mapSection.semantic.present
     /\ _semantic_role_to_block(mapSection.semantic.semanticRole) # ""
     /\ _semantic_role_to_block(mapSection.semantic.semanticRole)
            \in mapCfg.available_blocks)
    => mapSection.type = _semantic_role_to_block(mapSection.semantic.semanticRole)

\* the semantic file says "Hero" for the second section and HeroCentered.v1
\* is available, yet the section keeps another type
C2_FailingInput ==
    /\ SectionMapped
    /\ mapSection.index = 1
    /\ mapSection.semantic.present
    /\ mapSection.semantic.semanticRole = "Hero"
    /\ "HeroCentered.v1" \in mapCfg.available_blocks
    /\ mapSection.type # "HeroCentered.v1"

\* C7: the candidates of a mapped section are in non-increasing score order,
\* also when the atom-rule suggestion has been put in front of the
\* classifier's candidates.
C7_CandidatesSorted ==
    SectionMapped =>
        \A i \in 1..Len(mapSection.candidates), j \in 1..Len(mapSection.candidates) :
            i < j => mapSection.candidates[i].score >= mapSection.candidates[j].score

\* the atom rules put a suggestion of score 0.65 in front of a classifier
\* candidate of a higher score
C7_FailingInput ==
    /\ SectionMapped
    /\ SuggestionUsable
    /\ mapSection.suggestion.score = 65
    /\ Len(mapSection.candidates) >= 2
    /\ mapSection.candidates[1].type = mapSection.suggestion.type
    /\ mapSection.candidates[1].score = 65
    /\ mapSection.candidates[2].score > 65

\* the classifier's best candidate for the section is FeatureGrid.v1, with a
\* score below the suggestion's, and the section has that type
FeatureGridBelowSuggestion ==
    /\ mapSection.classifier_candidates # <<>>
    /\ mapSection.classifier_candidates[1].type = "FeatureGrid.v1"
    /\ mapSection.classifier_candidates[1].score < mapSection.suggestion.score
    /\ mapSection.type_after_classifier = "FeatureGrid.v1"

\* C12: for a section with 3 headings, 4 text, 0 buttons, 0 links and 6
\* images (stats images = 6, buttons = 0, headings 3 as counted from the
\* atoms or at most 1 as the scenario states them) the atom rules suggest
\* LogoCloud.v1 with confidence 0.85 or more, and map_sections types the
\* section LogoCloud.v1 when the classifier's best candidate is a
\* lower-scoring FeatureGrid.v1.
C12_LogoCloudSelected ==
    (SectionMapped /\ mapSection.atoms \in {LogoScenarioAtoms, LogoScenarioStats}) =>
        /\ mapSection.suggestion.type = "LogoCloud.v1"
        /\ mapSection.suggestion.score >= 85
        /\ ("LogoCloud.v1" \in mapCfg.available_blocks /\ FeatureGridBelowSuggestion
                => mapSection.type_after_atoms = "LogoCloud.v1")

\* the section of the scenario, with the stats counted from its atoms: the
\* atom rules suggest CardsGrid.v1 with confidence 0.6 and the section is
\* not typed LogoCloud.v1
C12_FailingInput ==
    /\ SectionMapped
    /\ mapSection.atoms = LogoScenarioAtoms
    /\ "LogoCloud.v1" \in mapCfg.available_blocks
    /\ FeatureGridBelowSuggestion
    /\ mapSection.suggestion = Suggestion("CardsGrid.v1", 60, "Feature")
    /\ mapSection.type_after_atoms # "LogoCloud.v1"


\* the values the layout schema label is documented to take
LayoutLabels == {"Hero", "Features", "Proof", "Pricing", "FAQ", "CTA", "Footer", "Section"}

\* a block of the output: a section of the loop or the Navbar block
BlockBuilt == mapStage \in {"section", "navbar"}

\* C14: every block of the output carries a layout schema label that is one
\* of Hero, Features, Proof, Pricing, FAQ, CTA, Footer, Section, and that is
\* the label of the block's final type and intent tags.
C14_LabelOfFinalType ==
    BlockBuilt =>
        /\ mapSection.layout_schema \in LayoutLabels
        /\ mapSection.layout_schema
               = LayoutSchemaLabel(mapSection.type, mapSection.intent_tags)

\* C14, failing input: a section the classifier step retypes from a
\* feature grid to pricing cards
C14_FailingInput ==
    /\ SectionMapped
    /\ mapSection.type_before_classifier = "FeatureGrid.v1"
    /\ mapSection.type = "PricingCards.v1"


\* the loop over mapped is running on a page with a capture layout
CapturedLoop == mapCfg.has_capture_layout /\ mapStage \in {"loop", "section"}

\* C15: with a capture layout the output before the Navbar insertion has one
\* section per captured section, and output section i is built from captured
\* section i: its title is the source, its box and payload are the i-th.
C15_OnePerCapturedSection ==
    CapturedLoop =>
        /\ Len(mapMapped) = Len(mapCfg.section_titles)
        /\ SectionMapped =>
              /\ mapSection.source = mapCfg.section_titles[mapSection.index + 1]
              /\ mapSection.box = mapSection.index

\* C15, failing input: a captured page with a repeated title; the third
\* output section is built from the title of the fourth captured section
C15_FailingInput ==
    /\ CapturedLoop
    /\ SectionMapped
    /\ mapCfg.section_titles = RepeatedTitles
    /\ mapSection.index = 2
    /\ mapSection.source = "Footer"


\* the section went through classify_section (it is not a forced footer)
ClassifierRan ==
    /\ SectionMapped
    /\ ~(mapSection.source = "Footer" /\ "Footer.v1" \in mapCfg.available_blocks)

\* the score classify_section computes for a block type in the context of
\* the mapped section, whether or not it is among the five returned; 0 for
\* a type that is no archetype of the classifier
OwnClassifierScore(type) ==
    LET all == AllCandidates(_build_signals(
                   ClassifierInput(mapCfg, mapSection.source, mapSection.index,
                                   Len(mapMapped), mapSection.content)))
        own == {i \in 1..Len(all) : all[i].type = type}
    IN  IF own = {} THEN 0 ELSE all[CHOOSE i \in own : TRUE].score

\* C19: for a section whose current type is not a protected skeleton type,
\* the classifier step replaces the type by the top candidate only if the
\* top candidate scores at least 10 points above the classifier score of the
\* current type; with a smaller margin or a tie the earlier type is kept.
C19_OverrideNeedsMargin ==
    (/\ ClassifierRan
     /\ mapSection.type_before_classifier \notin SkeletonTypes
     /\ mapSection.type_after_classifier # mapSection.type_before_classifier)
    => /\ mapSection.classifier_candidates # <<>>
       /\ mapSection.type_after_classifier = mapSection.classifier_candidates[1].type
       /\ mapSection.classifier_candidates[1].score
              >= OwnClassifierScore(mapSection.type_before_classifier) + 10

\* C19 witness: the classifier step replaced the type of a section whose
\* earlier type has a classifier score above zero
C19_Witness ==
    /\ ClassifierRan
    /\ mapSection.type_before_classifier \notin SkeletonTypes
    /\ mapSection.type_after_classifier # mapSection.type_before_classifier
    /\ OwnClassifierScore(mapSection.type_before_classifier) > 0


\* a section whose top candidate reaches 60 but is less than 10 points above
\* the score of the current type
SmallMargin ==
    /\ ClassifierRan
    /\ mapSection.type_before_classifier \notin SkeletonTypes
    /\ mapSection.classifier_candidates[1].type # mapSection.type_before_classifier
    /\ mapSection.classifier_candidates[1].type \in mapCfg.available_blocks
    /\ mapSection.classifier_candidates[1].score >= 60
    /\ mapSection.classifier_candidates[1].score
           < OwnClassifierScore(mapSection.type_before_classifier) + 10


\* the atom-rule step changed the type of the mapped section
AtomStepChangedType ==
    /\ SectionMapped
    /\ mapSection.type_after_atoms # mapSection.type_after_classifier

\* C20: the atom-rule step changes a section's type only when the
\* suggestion's confidence is at least 0.8 and the current type is not
\* protected; a suggestion below 0.8 never changes the type.
C20_AtomOverrideNeedsConfidence ==
    AtomStepChangedType =>
        /\ mapSection.atoms.present
        /\ mapSection.suggestion.score >= 80
        /\ mapSection.type_after_atoms = mapSection.suggestion.type
        /\ mapSection.type_after_classifier \notin SkeletonTypes

\* C20 witness: the atom-rule step changed the type of a section
C20_Witness ==
    /\ AtomStepChangedType
    /\ mapSection.type_after_classifier = "FeatureGrid.v1"
    /\ mapSection.suggestion.score >= 80

\* a suggestion below 0.8 for another type than that of an unprotected section
WeakSuggestion ==
    /\ SectionMapped
    /\ mapSection.atoms.present
    /\ mapSection.suggestion.type \in mapCfg.available_blocks
    /\ mapSection.suggestion.type # mapSection.type_after_classifier
    /\ mapSection.suggestion.score < 80
    /\ mapSection.type_after_classifier \notin AtomProtected(mapSection.index)

(***************************************************************************)
(* Page pipeline: properties                                               *)
(***************************************************************************)
\* the run over the page has ended, with the titles or with an exception
PipelineOver == plStage \in {"titled", "capture_raised", "dsl_raised", "titles_raised"}

CorruptIndices == {i \in 1..Len(plPage) : IsCorrupt(plPage[i])}

\* the entries of the section groups, over all groups
GroupItems ==
    UNION {Range(plCapture.groups[g].sections) : g \in 1..Len(plCapture.groups)}

\* C10: on a page with at most one malformed section no stage raises:
\* the section groups hold every section, the atoms DSL a section for every
\* payload that is a dict, and there is a title per section; a section whose
\* payload is empty or not a dict has layout type "stack" and zero counts.
C10_CorruptSectionTolerated ==
    (PipelineOver /\ Cardinality(CorruptIndices) <= 1) =>
        /\ plStage = "titled"
        /\ Len(plTitles) = Len(plPage)
        /\ \A i \in 1..Len(plPage) :
              /\ \E item \in GroupItems : item.index = i - 1
              /\ IsDict(plPage[i].payload)
                    => \E d \in 1..Len(plDsl) : plDsl[d].index = PyInt(i - 1)
              /\ (~IsDict(plPage[i].payload) \/ plPage[i].payload = EmptyDict)
                    => /\ \A item \in GroupItems :
                              item.index = i - 1 => item.layout_type = "stack"
                       /\ \A d \in 1..Len(plDsl) :
                              plDsl[d].index = PyInt(i - 1)
                                  => \A key \in DOMAIN plDsl[d].stats :
                                         plDsl[d].stats[key] = 0

\* build_atoms_dsl raised TypeError on a page of one well-formed section and
\* one section with an atom whose text is a number
C10_FailingInput ==
    /\ plStage = "dsl_raised"
    /\ plExc = "TypeError"
    /\ plPage = <<WellFormedSections[1], NumberTextSection>>

(***************************************************************************)
(* HSL strings: properties                                                 *)
(***************************************************************************)
\* C17: for every well-formed HSL string s ("H S% L%" with integer
\* components, whitespace around it allowed) _parse_hsl accepts s, the
\* triple written back as "H S% L%" is s without its surrounding whitespace,
\* that is also the value _hsl_value accepts s as, and the round trip applied
\* to its own result gives that result again.
C17_HslRoundTrip ==
    hsInput \in WellFormedHslTexts =>
        /\ hsStage # "unparsed"
        /\ hsStage \in {"formatted", "valued"} /\ hsRound = 1
               => hsOut = StripText(hsInput)
        /\ hsStage = "valued" => hsAccepted = Text(StripText(hsInput))
        /\ hsStage = "formatted" /\ hsRound = 2 => hsOut = hsFirst

\* a well-formed HSL string that _hsl_value does not accept as itself
C17_FailingInput ==
    /\ hsStage = "valued"
    /\ hsInput \in WellFormedHslTexts
    /\ hsOut = StripText(hsInput)
    /\ hsAccepted # Text(StripText(hsInput))

(***************************************************************************)
(* Pages of one domain: properties                                         *)
(***************************************************************************)
PagesOver == \A p \in PageSlugs : pgPc[p] \in {"done", "raised"}

\* the outcomes of page p are the ones of the sequential run in order o
OutcomeIn(runs, p) ==
    LET run == runs[CHOOSE i \in 1..Len(runs) : runs[i].page = p]
    IN  pgDesign[p] = run.design /\ pgTheme[p] = run.theme

AsInOrder(o, p) == OutcomeIn(RunInOrder(o, EmptyDict), p)

\* C11: the per-page stages of two pages of one domain, interleaved in any
\* way, give each page the outcomes (design tokens, generated theme) of a
\* run of the two pages one after the other, and no stage of a page reads
\* a file that a stage of the other page wrote.
C11_PagesIndependent ==
    /\ \A p \in PageSlugs : pgReads[p] \subseteq {p}
    /\ PagesOver => \E o \in PageOrders : \A p \in PageSlugs : AsInOrder(o, p)

\* both pages ran to the end, and the design tokens of one of them were
\* built from the theme tokens the other page's capture wrote
C11_FailingInput ==
    /\ \A p \in PageSlugs : pgPc[p] = "done"
    /\ \E p \in PageSlugs :
          /\ pgReads[p] = PageSlugs \ {p}
          /\ \A o \in PageOrders : ~AsInOrder(o, p)

(***************************************************************************)
(* Layout Inferencer: properties                                           *)
(***************************************************************************)
\* the centres of the positive-size nodes of the call, doubled
PositiveCenters ==
    {c \in {NodeCenter(lyNodes.elems[i]) : i \in 1..Len(lyNodes.elems)} : c[1]}

\* the number of positive-size nodes of the call
PositiveCount ==
    Cardinality({i \in 1..Len(lyNodes.elems) : NodeCenter(lyNodes.elems[i])[1]})

\* the column and row buckets of the centres: round(x / 80), round(y / 80)
ColumnBuckets == {RoundHalfEven(c[2], 160) : c \in PositiveCenters}

RowBuckets == {RoundHalfEven(c[3], 160) : c \in PositiveCenters}

\* C22: layout inference returns 'grid' for every section with at least 6
\* positive-size nodes whose centres fall into at least 2 distinct column
\* buckets (x rounded to 80px) and at least 2 distinct row buckets.
C22_GridForTwoByTwo ==
    (/\ lyStage = "returned"
     /\ PositiveCount >= 6
     /\ Cardinality(ColumnBuckets) >= 2
     /\ Cardinality(RowBuckets) >= 2)
    => lyOut = "grid"

\* C22, failing input: six positive-size nodes in two columns and two rows
C22_FailingInput ==
    /\ lyStage = "returned"
    /\ PositiveCount >= 6
    /\ Cardinality(ColumnBuckets) >= 2
    /\ Cardinality(RowBuckets) >= 2

\* no call of the modelled inputs returns 'grid' or 'overlap'
NeverGrid == lyStage = "returned" => lyOut \in {"stack", "split"}

(***************************************************************************)
(* Section grouping: properties                                            *)
(***************************************************************************)
\* the sections in scan order (1-based positions of grBoxes)
ScanOrder == SortByTop(Len(grBoxes), [i \in 1..Len(grBoxes) |-> grBoxes[i][1]])

\* the groups that hold the 0-based section index idx
GroupsOf(idx) ==
    {g \in 1..Len(grGroups) : \E k \in 1..Len(grGroups[g]) : grGroups[g][k] = idx}

\* top of the next section minus bottom of the previous one
GapAfter(prev, next) == grBoxes[next][1] - (grBoxes[prev][1] + grBoxes[prev][2])

\* C24: two consecutive sections of the top-to-bottom scan are in the same
\* group exactly when the gap between the top of the next and the bottom of
\* the previous section is at most 140px, also when an earlier, taller
\* section extends below the previous one.
C24_GroupedByGapToPrevious ==
    grStage = "grouped" =>
        \A p \in 1..(Len(ScanOrder) - 1) :
            (GroupsOf(ScanOrder[p] - 1) = GroupsOf(ScanOrder[p + 1] - 1))
                <=> GapAfter(ScanOrder[p], ScanOrder[p + 1]) <= 140

\* C24, failing input: a tall section, a short one inside it and a third
\* one more than 140px below the short one but above the tall one's bottom
C24_FailingInput ==
    /\ grStage = "grouped"
    /\ grBoxes = << <<0, 1000>>, <<100, 100>>, <<400, 100>> >>

\* the section indices of the groups, one group after the other
GroupedIndices == Concat(grGroups)

\* C28: section grouping partitions the sections: each section index is in
\* exactly one group, no group is empty, and groups and the indices inside
\* them follow non-decreasing section top.
C28_GroupsPartition ==
    grStage = "grouped" =>
        /\ \A i \in 1..Len(grBoxes) :
               Cardinality({k \in 1..Len(GroupedIndices) : GroupedIndices[k] = i - 1}) = 1
        /\ Len(GroupedIndices) = Len(grBoxes)
        /\ \A g \in 1..Len(grGroups) : grGroups[g] # <<>>
        /\ \A k \in 1..(Len(GroupedIndices) - 1) :
               grBoxes[GroupedIndices[k] + 1][1] <= grBoxes[GroupedIndices[k + 1] + 1][1]

\* C28 witness: three sections captured out of top order are grouped into
\* more than one group
C28_Witness ==
    /\ grStage = "grouped"
    /\ Len(grBoxes) = 3
    /\ grBoxes[1][1] > grBoxes[2][1]
    /\ Len(grGroups) = 2

(***************************************************************************)
(* Semantic tags: properties                                               *)
(***************************************************************************)
\* apply_semantic_override wrote the override file to semantic.json
OverrideApplied == smArg.given /\ smArg.file.exists /\ smArg.file.json

\* C27: the roles of an override applied before the pipeline runs are what
\* map_sections reads: no stage between that write and the read of
\* semantic.json overwrites the file.
C27_OverrideReachesComposer ==
    /\ (smStage \in {"run_pipeline", "captured", "dsl", "tagged", "mapped"} /\ OverrideApplied) =>
          smFile = JsonFile(smArg.file.sections)
    /\ (smStage = "mapped" /\ OverrideApplied) =>
          smTags = _load_semantic_tags(smArg.file)

\* run.py --semantic-override with {"sections": [{"index": 0,
\* "semanticRole": "FAQ"}]} on a page of one captured section, mapped
C27_FailingInput ==
    /\ smStage = "mapped"
    /\ smArg = [given |-> TRUE, file |-> JsonFile(<<Tag(0, "FAQ", "manual")>>)]
    /\ Len(smPage) = 1

(***************************************************************************)
(* Block suggestion from atoms: properties                                 *)
(***************************************************************************)
\* the detectors in the documented order, each with the block it stands for
\* and what it answers for the section: <<type, family, fires, confidence>>
DetectorAnswers(a) ==
    <<<<"PricingCards.v1", "Pricing",
        _atoms_pricing_candidate(a)[1], _atoms_pricing_candidate(a)[2]>>,
      <<"FAQAccordion.v1", "FAQ", _atoms_faq_candidate(a)[1], _atoms_faq_candidate(a)[2]>>,
      <<"StatsKPI.v1", "Feature", _atoms_stats_candidate(a)[1], _atoms_stats_candidate(a)[2]>>,
      <<"StepsTimeline.v1", "Feature",
        _atoms_steps_candidate(a)[1], _atoms_steps_candidate(a)[2]>>,
      <<"LogoCloud.v1", "Proof", _atoms_logo_candidate(a)[1], _atoms_logo_candidate(a)[2]>>,
      <<"TestimonialsGrid.v1", "Proof",
        _atoms_testimonials_candidate(a)[1], _atoms_testimonials_candidate(a)[2]>>,
      <<"FeatureWithMedia.v1", "Feature", a.split, 85>>,
      <<"CardsGrid.v1", "Feature", _atoms_cards_candidate(a)[1], _atoms_cards_candidate(a)[2]>>,
      <<"FeatureGrid.v1", "Feature",
        _atoms_feature_candidate(a)[1], _atoms_feature_candidate(a)[2]>> >>

\* the positions of the detectors that fire
Firing(a) == {d \in 1..Len(DetectorAnswers(a)) : DetectorAnswers(a)[d][3]}

\* C29: the detectors are asked in the order pricing, FAQ, stats, steps,
\* logo cloud, testimonials, split layout, cards, feature; the first that
\* fires decides the block and the confidence, also when a later one would
\* fire with a higher confidence; there is no suggestion, with confidence 0,
\* exactly when none fires.
C29_FirstDetectorWins ==
    sgStage = "suggested" =>
        /\ \A d \in Firing(sgAtoms) :
              (\A e \in Firing(sgAtoms) : d <= e) =>
                  sgOut = Suggestion(DetectorAnswers(sgAtoms)[d][1],
                                     DetectorAnswers(sgAtoms)[d][4],
                                     DetectorAnswers(sgAtoms)[d][2])
        /\ Firing(sgAtoms) = {} <=> sgOut = Suggestion("", 0, "")
        /\ sgOut.type = "" <=> Firing(sgAtoms) = {}

\* a section with a price and the word "faq" but no button, link or heading:
\* pricing fires with 0.65, FAQ would fire with 0.85, and pricing is returned
C29_Witness ==
    /\ sgStage = "suggested"
    /\ _atoms_pricing_candidate(sgAtoms) = <<TRUE, 65>>
    /\ _atoms_faq_candidate(sgAtoms) = <<TRUE, 85>>
    /\ sgOut = Suggestion("PricingCards.v1", 65, "Pricing")

====
